---- MODULE Spec2Model ----
(***************************************************************************)
(* Model of the REST API command execution core of FCEUX                   *)
(* (src/drivers/Qt/RestApi): the bounded CommandQueue, the promise/future  *)
(* result channel of ApiCommandWithResult, executeCommand / waitForResult  *)
(* on the request-handling threads, and the per-tick drain loop of the     *)
(* emulation thread.                                                       *)
(***************************************************************************)
EXTENDS Integers, Sequences, FiniteSets, TLC

\* ------------------------------------------------------------------ bounds
\* Largest maxSize handed to the CommandQueue constructor.
MaxCap == 2
\* Number of commands the request handlers create in one run.
NumCmds == 3

\* Number of threads that call push / tryPop on the queue directly.
NumThreads == 2

CmdIds == 1..NumCmds

Threads == 1..NumThreads

\* Controller ports: the index range of apiJoypadMask1 / apiJoypadMask2.
NumPorts == 4

Ports == 0..(NumPorts - 1)

\* Pass-through values of the two masks.
ForceOffNone == 255

ForceOnNone == 0

\* prev: what the sample directly before it on the same port returned
\* ("none" when a set call or nothing came before).
NoSample == [which |-> -1, raw |-> 0, ret |-> 0, prev |-> "none", frame |-> 0]

NoWrite == [kind |-> "none", start |-> 0, length |-> 0, battery |-> FALSE,
            game |-> FALSE, outcome |-> "none", bytesWritten |-> 0]

NoRead == [kind |-> "none", start |-> 0, length |-> 0, game |-> FALSE,
           outcome |-> "none", lastAddr |-> -1, data |-> << >>]

NoBatch == [ops |-> << >>, pc |-> "idle", results |-> << >>,
            error |-> "none", mem0 |-> << >>]

NoReply == [route |-> "none", what |-> "", status |-> 0,
            requested |-> << >>, length |-> -1]

NoCmd == [name |-> "none", stage |-> "none", address |-> 0, length |-> 0,
          battery |-> FALSE, portNum |-> 0, port |-> 0, buttons |-> {},
          game |-> FALSE, outcome |-> "none", region |-> ""]

NoPress == [port |-> -1, buttonMask |-> 0, durationMs |-> 0, frame |-> 0,
            releaseFrame |-> 0]

\* What a command's execute() does with its resultPromise when the drain
\* runs it (decided by the emulator state at that moment):
\*   "value"          sets the value and returns (MemoryReadCommand with a game)
\*   "throw"          throws before the promise is set ("No game loaded")
\*   "valueThenThrow" sets the value and then throws
Kinds == {"value", "throw", "valueThenThrow"}

VARIABLES
    maxQueueSize,   \* CommandQueue::maxQueueSize
    qAlive,         \* the CommandQueue object exists (not yet destructed)
    commands,       \* CommandQueue::commands, front first
    nextId,         \* identity of the next command a handler constructs
    kind,           \* per command: what its execute() did ("none" before)
    owner,          \* per command: "none" | "queue" | "emu" | "destroyed"
    promise,        \* per command: shared state of resultPromise [val, n]
    future,         \* per command: which shared state executeCommand returned
    rejected,       \* per command: push returned false
    hpc,            \* per handler: "idle" | "waiting" | "done"
    hres,           \* per handler: what waitForResult returned or threw
    executed,       \* per command: number of execute() calls
    accepted,       \* history: commands in the order their push took the lock
    poppedSeq,      \* history: commands in the order tryPop returned them
    midDrain,       \* commands pushed during the latest drain
    epc,            \* emulation thread: "idle" | "pop" | "exec"
    cur             \* command held by the drain loop (0 = none)

\* Threads calling CommandQueue::push / tryPop directly.
VARIABLES
    queueMutex,     \* CommandQueue::queueMutex: 0 = free, else the holder
    tpc,            \* per thread: position inside push / tryPop
    targ,           \* per thread: argument of push (0 = null pointer)
    tlocal,         \* per thread: tryPop's local "cmd" (0 = not read yet)
    tret            \* per thread: [op, val] of the last call that returned

mtvars == << queueMutex, tpc, targ, tlocal, tret >>

\* Input overlay (InputApi.cpp).
VARIABLES
    apiJoypadMask1, \* per port: AND mask, a 0 bit forces the button off
    apiJoypadMask2, \* per port: OR mask, a 1 bit forces the button on
    lastSample,     \* the last FCEU_ApiReadJoypad call: port, raw, result
    setCalls        \* FCEU_ApiSetJoypad calls not yet consumed by a sample

ovvars == << apiJoypadMask1, apiJoypadMask2, lastSample, setCalls >>

\* Timed presses (InputCommands.cpp) and the emulation loop that samples.
VARIABLES
    pendingReleases,  \* InputReleaseManager::pendingReleases
    currFrameCounter, \* the emulator's frame counter
    GameInfo,         \* TRUE iff a game is loaded (GameInfo != NULL)
    fpc,              \* position of the emulation loop inside the frame
    sport,            \* next port the emulation loop samples
    presses           \* the InputPressCommands executed so far, in order

prvars == << pendingReleases, currFrameCounter, GameInfo, fpc, sport,
             presses >>

\* Memory write commands (MemoryRangeCommands.cpp).
VARIABLES
    lastWrite,      \* the last write executed: range, cartridge, outcome
    lastRead,       \* the last read executed: range, outcome, bytes returned
    mem             \* emulator memory: address -> byte, for the addresses
                    \* written so far (every other address holds 0)

memvars == << lastWrite, lastRead, mem >>

\* State of a batch command that is executing, and the emulator-state lock.
VARIABLES
    emuLock,        \* holder of the emulator-state lock: "none" or "batch"
    batch           \* MemoryBatchCommand: operations, position, results

batvars == << emuLock, batch >>

\* The answer of the last HTTP handler that ran.
VARIABLES
    lastReply       \* route, error message ("" = success), res.status

httpvars == << lastReply >>

\* The last command constructed and, if accepted, executed.
VARIABLES
    lastCmd         \* name, arguments, game loaded or not, outcome

cmdvars == << lastCmd >>

\* The locks of the program and the threads that take them.
VARIABLES
    locks,          \* emulator-state lock (holder, hold count, unmatched
                    \* unlock seen), CommandQueue::queueMutex and
                    \* InputReleaseManager::releaseMutex (holder)
    lockpc,         \* per thread: position in its code
    curCmd,         \* the command the drain is executing: its path through
                    \* execute(), the position on it, the count at entry
    lockQueue,      \* names of the commands waiting in the CommandQueue
    lastAccess      \* the last write to the overlay masks or the
                    \* pending-release list: by whom, lock held or not

lockvars == << locks, lockpc, curCmd, lockQueue, lastAccess >>

\* The HTTP server object (RestApiServer.h).
VARIABLES
    server          \* m_running, the state of m_serverThread, m_server,
                    \* m_config.port, m_lastError, the httplib::Server
                    \* instances created, and of the last call: its name,
                    \* its port argument, the signals it emitted, its
                    \* result; the menu item
                    \* restApiAct; whether the object or the process ended

srvvars == << server >>

sysvars == << lockvars, srvvars >>

\* State outside the command execution core proper.
xvars == << mtvars, ovvars, prvars, memvars, batvars, httpvars, sysvars,
           cmdvars >>

\* What the direct queue calls of the threads leave alone.
notMT == << ovvars, prvars, memvars, batvars, httpvars, sysvars,
           cmdvars >>

qvars == << maxQueueSize, qAlive, commands, nextId, kind, owner, promise,
            future, rejected, hpc, hres, executed, accepted, poppedSeq,
            midDrain, epc, cur >>

\* What the input overlay and the press commands leave alone.
notInput == << qvars, mtvars, memvars, batvars, httpvars, sysvars,
           cmdvars >>

vars == << maxQueueSize, qAlive, commands, nextId, kind, owner, promise,
           future, rejected, hpc, hres, executed, accepted, poppedSeq,
           midDrain, epc, cur, xvars >>

\* ---------------------------------------------------------- result channel
Unset == [val |-> "unset", n |-> 0]

\* std::promise::set_value as used by execute(): stores the value.
SetValue(p) ==
    IF p.val = "unset" THEN [val |-> "value", n |-> p.n + 1] ELSE p

SetException_overwrite(p, e) == [val |-> e, n |-> p.n + 1]

SetException_drop(p, e) == p

\* ApiCommandWithResult::setException: set_exception, future_error ignored.
SetException(p, e) ==
    IF p.val = "unset" THEN [val |-> e, n |-> p.n + 1] ELSE p

\* ~std::promise of a command destroyed with an unsatisfied promise:
\* the shared state is made ready with broken_promise.
Abandon(p) ==
    IF p.val = "unset" THEN [val |-> "broken", n |-> p.n + 1] ELSE p

\* The command's cancellation hook, called by clear() with the error.
Cancel(p, e) == SetException(p, e)

\* The drain's handler for an exception escaping execute(): the exception
\* becomes the command's error result.
DrainCatch(p, threw) == IF threw THEN SetException(p, "execError") ELSE p

\* ------------------------------------------------------------ CommandQueue
PushAccepts_offByOne(q, max) == ~(Len(q) > max)

PushAccepts_early(q, max) == ~(Len(q) + 1 >= max)

\* push: "if (commands.size() >= maxQueueSize) return false"
PushAccepts(q, max) == ~(Len(q) >= max)

PushResult_front(q, c) == <<c>> \o q

\* push: commands.push(std::move(cmd))
PushResult(q, c) == Append(q, c)

TryPopEmpty_offByOne(q) == Len(q) <= 1

\* tryPop: "if (commands.empty()) return nullptr"
TryPopEmpty(q) == q = << >>

\* tryPop: commands.front()
TryPopFront(q) == Head(q)

\* tryPop: commands.pop()
TryPopRest(q) == Tail(q)

ClearLoop_once(q) == IF q = << >> THEN q ELSE Tail(q)

\* clear: "while (!commands.empty()) { cancel front; commands.pop(); }"
\* yields the queue that is left; the commands removed were cancelled.
RECURSIVE ClearLoop(_)
ClearLoop(q) == IF q = << >> THEN q ELSE ClearLoop(Tail(q))

Elems(q) == { q[i] : i \in 1..Len(q) }

Index(q, c) == CHOOSE i \in 1..Len(q) : q[i] = c

\* -------------------------------------------------------- executeCommand
ExecuteCommandFuture_own(pushed) == "own"

\* executeCommand: the command's own future when push succeeded, otherwise
\* the future of a fresh errorPromise holding "Command queue is full".
ExecuteCommandFuture(pushed) == IF pushed THEN "own" ELSE "full"

\* std::future::wait_for(...) != timeout
FutureReady(c) ==
    \/ future[c] = "full"
    \/ future[c] = "own" /\ promise[c].val # "unset"

\* What the shared state behind the returned future holds.
Stored(c) == IF future[c] = "full" THEN "full" ELSE promise[c].val

WaitOutcome_swallow(ready, stored) == IF ready THEN stored ELSE "value"

\* waitForResult: timeout error, else future.get()
WaitOutcome(ready, stored) == IF ready THEN stored ELSE "timeout"

\* ------------------------------------------------------------------- Init
QueueInit ==
    /\ maxQueueSize \in 0..MaxCap
    /\ qAlive = TRUE
    /\ commands = << >>
    /\ nextId = 1
    /\ kind = [c \in CmdIds |-> "none"]
    /\ owner = [c \in CmdIds |-> "none"]
    /\ promise = [c \in CmdIds |-> Unset]
    /\ future = [c \in CmdIds |-> "none"]
    /\ rejected = [c \in CmdIds |-> FALSE]
    /\ hpc = [c \in CmdIds |-> "idle"]
    /\ hres = [c \in CmdIds |-> "none"]
    /\ executed = [c \in CmdIds |-> 0]
    /\ accepted = << >>
    /\ poppedSeq = << >>
    /\ midDrain = {}
    /\ epc = "idle"
    /\ cur = 0

\* No thread is inside a queue operation.
ThreadInit ==
    /\ queueMutex = 0
    /\ tpc = [t \in Threads |-> "idle"]
    /\ targ = [t \in Threads |-> 0]
    /\ tlocal = [t \in Threads |-> 0]
    /\ tret = [t \in Threads |-> [op |-> "none", val |-> 0]]

\* uint8_t apiJoypadMask1[4] = {0xFF,...}; apiJoypadMask2[4] = {0x00,...};
OverlayInit ==
    /\ apiJoypadMask1 = [p \in Ports |-> ForceOffNone]
    /\ apiJoypadMask2 = [p \in Ports |-> ForceOnNone]
    /\ lastSample = NoSample
    /\ setCalls = {}

\* No release is pending; the emulation loop is at the start of frame 0.
PressInit ==
    /\ pendingReleases = << >>
    /\ currFrameCounter = 0
    /\ GameInfo = TRUE
    /\ fpc = "drain"
    /\ sport = 0
    /\ presses = << >>

\* No write has been executed.
MemInit ==
    /\ lastWrite = NoWrite
    /\ lastRead = NoRead
    /\ mem = << >>

BatchInit ==
    /\ emuLock = "none"
    /\ batch = NoBatch

HttpInit == lastReply = NoReply

CmdInit == lastCmd = NoCmd

NoCur == [name |-> "none", path |-> << >>, pos |-> 0, entry |-> 0]

NoAccess == [thread |-> "none", target |-> "none", held |-> FALSE]

\* Every lock is free; the emulation thread runs (ConsoleWindow.cpp:203)
\* and the GUI thread is about to construct the FceuxApiServer (line 317).
LockInit ==
    /\ locks = [holder |-> "none", count |-> 0, unmatched |-> FALSE,
                queue |-> "none", release |-> "none"]
    /\ lockpc = [emu |-> "idle", gui |-> "construct", handler |-> "idle"]
    /\ curCmd = NoCur
    /\ lockQueue = << >>
    /\ lastAccess = NoAccess

\* RestApiServer::RestApiServer: no httplib::Server, not running, no thread,
\* the default configuration.
DefaultPort == 8080

ServerInit ==
    server = [running |-> FALSE, thread |-> "none", hasServer |-> FALSE,
              port |-> DefaultPort, lastError |-> "None", instance |-> 0,
              op |-> "none", arg |-> 0, emitted |-> {}, ret |-> FALSE,
              checked |-> FALSE, life |-> "alive"]

XInit ==
    /\ ThreadInit
    /\ OverlayInit
    /\ PressInit
    /\ MemInit
    /\ BatchInit
    /\ HttpInit
    /\ CmdInit
    /\ LockInit
    /\ ServerInit

Init == QueueInit /\ XInit

\* ---------------------------------------------------------------- actions
\* A handler thread constructs a command and calls executeCommand:
\* getResult(), then push(); a rejected command is destroyed with its
\* promise unsatisfied when push returns.
Submit ==
    /\ qAlive
    /\ nextId <= NumCmds
    /\ LET c  == nextId
           ok == PushAccepts(commands, maxQueueSize)
       IN /\ nextId' = nextId + 1
          /\ rejected' = [rejected EXCEPT ![c] = ~ok]
          /\ future' = [future EXCEPT ![c] = ExecuteCommandFuture(ok)]
          /\ hpc' = [hpc EXCEPT ![c] = "waiting"]
          /\ IF ok
                THEN /\ commands' = PushResult(commands, c)
                     /\ accepted' = Append(accepted, c)
                     /\ owner' = [owner EXCEPT ![c] = "queue"]
                     /\ promise' = promise
                     /\ midDrain' = IF epc # "idle" THEN midDrain \cup {c}
                                                    ELSE midDrain
                ELSE /\ commands' = commands
                     /\ accepted' = accepted
                     /\ owner' = [owner EXCEPT ![c] = "destroyed"]
                     /\ promise' = [promise EXCEPT ![c] = Abandon(promise[c])]
                     /\ midDrain' = midDrain
    /\ UNCHANGED << maxQueueSize, qAlive, kind, hres, executed, poppedSeq,
                    epc, cur >>
    /\ UNCHANGED xvars

\* waitForResult on the handler thread.
WaitForResult(c) ==
    /\ hpc[c] = "waiting"
    /\ hres' = [hres EXCEPT ![c] = WaitOutcome(FutureReady(c), Stored(c))]
    /\ hpc' = [hpc EXCEPT ![c] = "done"]
    /\ UNCHANGED << maxQueueSize, qAlive, commands, nextId, kind, owner,
                    promise, future, rejected, executed, accepted,
                    poppedSeq, midDrain, epc, cur >>
    /\ UNCHANGED xvars

\* The emulation tick enters the drain step.
DrainBegin ==
    /\ qAlive
    /\ epc = "idle"
    /\ epc' = "pop"
    /\ midDrain' = {}
    /\ UNCHANGED << maxQueueSize, qAlive, commands, nextId, kind, owner,
                    promise, future, rejected, hpc, hres, executed,
                    accepted, poppedSeq, cur >>
    /\ UNCHANGED xvars

\* One evaluation of "while (auto cmd = queue.tryPop())".
DrainPop ==
    /\ qAlive
    /\ epc = "pop"
    /\ IF TryPopEmpty(commands)
          THEN /\ epc' = "idle"
               /\ UNCHANGED << commands, cur, owner, poppedSeq >>
          ELSE /\ cur' = TryPopFront(commands)
               /\ commands' = TryPopRest(commands)
               /\ owner' = [owner EXCEPT ![TryPopFront(commands)] = "emu"]
               /\ poppedSeq' = Append(poppedSeq, TryPopFront(commands))
               /\ epc' = "exec"
    /\ UNCHANGED << maxQueueSize, qAlive, nextId, kind, promise, future,
                    rejected, hpc, hres, executed, accepted, midDrain >>
    /\ UNCHANGED xvars

\* Loop body of the drain: cmd->execute(); an exception is caught and
\* recorded as the command's error; the command is then destroyed.
DrainExecute(k) ==
    /\ epc = "exec"
    /\ LET c     == cur
           p1    == IF k = "throw" THEN promise[c]
                                   ELSE SetValue(promise[c])
           threw == k # "value"
           p2    == DrainCatch(p1, threw)
       IN /\ promise' = [promise EXCEPT ![c] = Abandon(p2)]
          /\ executed' = [executed EXCEPT ![c] = @ + 1]
          /\ owner' = [owner EXCEPT ![c] = "destroyed"]
          /\ kind' = [kind EXCEPT ![c] = k]
    /\ cur' = 0
    /\ epc' = "pop"
    /\ UNCHANGED << maxQueueSize, qAlive, commands, nextId, future,
                    rejected, hpc, hres, accepted, poppedSeq, midDrain >>
    /\ UNCHANGED xvars

\* Effect of CommandQueue::clear() on the queue and the promises.
ClearEffect ==
    /\ commands' = ClearLoop(commands)
    /\ LET gone == { c \in Elems(commands) :
                       \A i \in 1..Len(commands) :
                          commands[i] = c => i <= Len(commands) - Len(commands') }
       IN /\ promise' = [c \in CmdIds |->
                IF c \in gone
                   THEN Abandon(Cancel(promise[c], "cancelled"))
                   ELSE promise[c]]
          /\ owner' = [c \in CmdIds |->
                IF c \in gone THEN "destroyed" ELSE owner[c]]

\* CommandQueue::clear() called on the live queue.
Clear ==
    /\ qAlive
    /\ ClearEffect
    /\ UNCHANGED << maxQueueSize, qAlive, nextId, kind, future, rejected,
                    hpc, hres, executed, accepted, poppedSeq, midDrain,
                    epc, cur >>
    /\ UNCHANGED xvars

\* CommandQueue::~CommandQueue(): clear(), after which the queue is gone.
Destroy ==
    /\ qAlive
    /\ epc = "idle"
    /\ ClearEffect
    /\ qAlive' = FALSE
    /\ UNCHANGED << maxQueueSize, nextId, kind, future, rejected, hpc, hres,
                    executed, accepted, poppedSeq, midDrain, epc, cur >>
    /\ UNCHANGED xvars

Next ==
    \/ Submit
    \/ \E c \in CmdIds : WaitForResult(c)
    \/ DrainBegin
    \/ DrainPop
    \/ \E k \in Kinds : DrainExecute(k)
    \/ Clear
    \/ Destroy

Spec == Init /\ [][Next]_vars

\* The emulation thread keeps ticking (its next drain step is taken
\* whenever it has one) and wait_for always returns (ready or timed out).
LiveSpec ==
    /\ Spec
    /\ WF_vars(DrainBegin \/ DrainPop \/ \E k \in Kinds : DrainExecute(k))
    /\ \A c \in CmdIds : WF_vars(WaitForResult(c))

TypeOK ==
    /\ maxQueueSize \in 0..MaxCap
    /\ qAlive \in BOOLEAN
    /\ commands \in Seq(CmdIds)
    /\ nextId \in 1..(NumCmds + 1)
    /\ epc \in {"idle", "pop", "exec"}
    /\ cur \in 0..NumCmds
\* ------------------------------------------------------------ properties
Pos(c) == Index(accepted, c)

Cancelled(c) == promise[c].val = "cancelled"

\* A step of clear(): some queued command is destroyed without being popped.
ClearStep == \E c \in CmdIds : owner[c] = "queue" /\ owner'[c] = "destroyed"

C2_EveryFutureResolves ==
    \A c \in CmdIds :
        /\ []<>(future[c] = "none" \/ FutureReady(c))
        /\ []<>(hpc[c] # "waiting")

C2_Witness ==
    \E c \in CmdIds :
        /\ future[c] = "own" /\ executed[c] = 1
        /\ FutureReady(c) /\ hpc[c] = "done" /\ hres[c] = "value"

\* C3: the number of queued commands never exceeds maxQueueSize.
C3_QueueBound == Len(commands) <= maxQueueSize

C3_Witness ==
    /\ maxQueueSize > 0
    /\ Len(commands) = maxQueueSize
    /\ \E c \in CmdIds : rejected[c]

\* C4: push returns true exactly when fewer than maxQueueSize commands are
\* queued; a rejected push leaves the queue as it was; a tryPop on a full
\* queue makes room for exactly one further push.
C4_CapacityBoundary ==
    [][/\ nextId' # nextId =>
            /\ (~rejected'[nextId]) <=> (Len(commands) < maxQueueSize)
            /\ rejected'[nextId] => commands' = commands
            /\ ~rejected'[nextId] =>
                  /\ Len(commands') = Len(commands) + 1
                  /\ nextId \in Elems(commands')
       /\ (poppedSeq' # poppedSeq /\ Len(commands) = maxQueueSize) =>
            Len(commands') = maxQueueSize - 1]_vars

C4_Witness ==
    /\ maxQueueSize > 0
    /\ Len(commands) = maxQueueSize
    /\ poppedSeq # << >>
    /\ \A c \in CmdIds : ~Cancelled(c)
    /\ \E c, d \in CmdIds :
          /\ c < d
          /\ rejected[c] /\ ~rejected[d] /\ d \in Elems(commands)

\* C5: tryPop returns the accepted commands in the order in which their
\* pushes took the queue lock; no command overtakes an earlier one.
C5_Fifo ==
    /\ \A i, j \in 1..Len(poppedSeq) :
          i < j => Pos(poppedSeq[i]) < Pos(poppedSeq[j])
    /\ \A i, j \in 1..Len(commands) :
          i < j => Pos(commands[i]) < Pos(commands[j])
    /\ \A i \in 1..Len(poppedSeq) : \A j \in 1..Len(commands) :
          Pos(poppedSeq[i]) < Pos(commands[j])

C5_Witness ==
    /\ Len(poppedSeq) >= 3
    /\ \A i \in 1..Len(poppedSeq) : executed[poppedSeq[i]] = 1
    /\ maxQueueSize >= 2

\* C6: an exception thrown by execute() during the drain becomes the error
\* result of that command only; the drain goes on and the other commands
\* execute and resolve normally.
C6_DrainIsolation ==
    /\ [](\A c \in CmdIds : executed[c] >= 1 =>
            /\ kind[c] = "throw" => promise[c].val = "execError"
            /\ kind[c] = "value" => promise[c].val = "value"
            /\ FutureReady(c))
    /\ [][executed' # executed =>
            /\ epc' = "pop"
            /\ commands' = commands
            /\ \A d \in CmdIds : d # cur => promise'[d] = promise[d]]_vars

C6_Witness ==
    \E i, j \in 1..Len(poppedSeq) :
        /\ i < j
        /\ kind[poppedSeq[i]] = "throw" /\ kind[poppedSeq[j]] = "value"
        /\ promise[poppedSeq[i]].val = "execError"
        /\ promise[poppedSeq[j]].val = "value"
        /\ midDrain = {poppedSeq[j]}
        /\ epc = "idle"

\* C7: a command pushed while a drain is running is popped and executed by
\* that same drain, unless clear() cancelled it first.
C7_DrainToEmpty ==
    epc = "idle" =>
        \A c \in midDrain : executed[c] = 1 \/ Cancelled(c)

C7_Witness ==
    /\ epc = "idle"
    /\ \E c \in midDrain : executed[c] = 1 /\ promise[c].val = "value"

\* Only a step of waitForResult that gave up on the timeout.
TimeoutStep(c) == hres[c] # "timeout" /\ hres'[c] = "timeout"

\* C8: a command's result channel is written exactly once in the command's
\* lifetime; a satisfied channel never changes again, and the submitter
\* observes exactly the result stored in the channel it was handed.
C8_OneShotChannel ==
    /\ [](\A c \in CmdIds :
            /\ promise[c].n <= 1
            /\ owner[c] = "destroyed" => promise[c].n = 1
            /\ (hpc[c] = "done" /\ hres[c] # "timeout") =>
                  hres[c] = Stored(c))
    /\ [][\A c \in CmdIds :
            promise[c].val # "unset" => promise'[c] = promise[c]]_vars

C8_Witness ==
    \E c \in CmdIds :
        /\ kind[c] = "valueThenThrow" /\ executed[c] = 1
        /\ promise[c] = [val |-> "value", n |-> 1]
        /\ hres[c] = "value"

C10_TimeoutWithoutCancel ==
    /\ [][\A c \in CmdIds :
            /\ TimeoutStep(c) =>
                  /\ ~FutureReady(c)
                  /\ commands' = commands
                  /\ promise' = promise
                  /\ owner' = owner
            /\ (hpc[c] = "waiting" /\ hpc'[c] = "done" /\ ~FutureReady(c)) =>
                  hres'[c] = "timeout"]_vars
    /\ [](\A c \in CmdIds :
            (hres[c] = "timeout" /\ executed[c] = 1 /\ kind[c] = "value") =>
                promise[c].val = "value")

C10_Witness ==
    \E c \in CmdIds :
        /\ hres[c] = "timeout" /\ kind[c] = "value"
        /\ executed[c] = 1 /\ promise[c].val = "value"

\* ===================================================== concurrent queue access
\* Several threads call CommandQueue::push and CommandQueue::tryPop directly,
\* as the ConcurrentAccess test does.  Each critical section is split at the
\* points where another thread could run if the lock did not exclude it.

\* if (!cmd) return false;
PushNullRejects_never(isNull) == FALSE

PushNullRejects(isNull) == isNull

\* FCEU::autoScopedLock lock(queueMutex): the constructor returns only when
\* no other thread holds the mutex.
MutexFree_none(m) == TRUE

MutexFree(m) == m = 0

NoRet == [op |-> "none", ok |-> FALSE, cmd |-> 0]

PushRet(b) == [op |-> "push", ok |-> b, cmd |-> 0]

PopRet(c) == [op |-> "pop", ok |-> c # 0, cmd |-> c]

\* A thread calls push; arg = 0 is the null pointer, otherwise a fresh
\* command.  The null check runs before the lock is taken.
MTPushCall(t, isNull) ==
    /\ tpc[t] = "idle"
    /\ isNull \/ nextId <= NumCmds
    /\ targ' = [targ EXCEPT ![t] = IF isNull THEN 0 ELSE nextId]
    /\ nextId' = IF isNull THEN nextId ELSE nextId + 1
    /\ IF PushNullRejects(isNull)
       THEN /\ tret' = [tret EXCEPT ![t] = PushRet(FALSE)]
            /\ tpc' = tpc
       ELSE /\ tret' = [tret EXCEPT ![t] = NoRet]
            /\ tpc' = [tpc EXCEPT ![t] = "push_lock"]
    /\ UNCHANGED << maxQueueSize, qAlive, commands, kind, owner, promise,
                    future, rejected, hpc, hres, executed, accepted,
                    poppedSeq, midDrain, epc, cur >>
    /\ UNCHANGED << queueMutex, tlocal >>
    /\ UNCHANGED notMT

MTPushLock(t) ==
    /\ tpc[t] = "push_lock"
    /\ MutexFree(queueMutex)
    /\ queueMutex' = t
    /\ tpc' = [tpc EXCEPT ![t] = "push_check"]
    /\ UNCHANGED qvars
    /\ UNCHANGED << targ, tlocal, tret >>
    /\ UNCHANGED notMT

\* if (commands.size() >= maxQueueSize) return false;
MTPushCheck(t) ==
    /\ tpc[t] = "push_check"
    /\ IF PushAccepts(commands, maxQueueSize)
       THEN /\ tpc' = [tpc EXCEPT ![t] = "push_do"]
            /\ UNCHANGED << queueMutex, tret, rejected >>
       ELSE /\ tpc' = [tpc EXCEPT ![t] = "idle"]
            /\ queueMutex' = 0
            /\ tret' = [tret EXCEPT ![t] = PushRet(FALSE)]
            /\ rejected' = IF targ[t] = 0 THEN rejected
                           ELSE [rejected EXCEPT ![targ[t]] = TRUE]
    /\ UNCHANGED << maxQueueSize, qAlive, commands, nextId, kind, owner,
                    promise, future, hpc, hres, executed, accepted,
                    poppedSeq, midDrain, epc, cur >>
    /\ UNCHANGED << targ, tlocal >>
    /\ UNCHANGED notMT

\* commands.push(std::move(cmd)); return true;
MTPushDo(t) ==
    /\ tpc[t] = "push_do"
    /\ commands' = PushResult(commands, targ[t])
    /\ accepted' = Append(accepted, targ[t])
    /\ tpc' = [tpc EXCEPT ![t] = "idle"]
    /\ queueMutex' = 0
    /\ tret' = [tret EXCEPT ![t] = PushRet(TRUE)]
    /\ UNCHANGED << maxQueueSize, qAlive, nextId, kind, owner, promise,
                    future, rejected, hpc, hres, executed, poppedSeq,
                    midDrain, epc, cur >>
    /\ UNCHANGED << targ, tlocal >>
    /\ UNCHANGED notMT

MTPopCall(t) ==
    /\ tpc[t] = "idle"
    /\ tpc' = [tpc EXCEPT ![t] = "pop_lock"]
    /\ tret' = [tret EXCEPT ![t] = NoRet]
    /\ UNCHANGED qvars
    /\ UNCHANGED << queueMutex, targ, tlocal >>
    /\ UNCHANGED notMT

MTPopLock(t) ==
    /\ tpc[t] = "pop_lock"
    /\ MutexFree(queueMutex)
    /\ queueMutex' = t
    /\ tpc' = [tpc EXCEPT ![t] = "pop_check"]
    /\ UNCHANGED qvars
    /\ UNCHANGED << targ, tlocal, tret >>
    /\ UNCHANGED notMT

\* if (commands.empty()) return nullptr;  cmd = std::move(commands.front());
MTPopCheck(t) ==
    /\ tpc[t] = "pop_check"
    /\ IF TryPopEmpty(commands)
       THEN /\ tpc' = [tpc EXCEPT ![t] = "idle"]
            /\ queueMutex' = 0
            /\ tret' = [tret EXCEPT ![t] = PopRet(0)]
            /\ UNCHANGED tlocal
       ELSE /\ tpc' = [tpc EXCEPT ![t] = "pop_do"]
            /\ tlocal' = [tlocal EXCEPT ![t] = TryPopFront(commands)]
            /\ UNCHANGED << queueMutex, tret >>
    /\ UNCHANGED qvars
    /\ UNCHANGED targ
    /\ UNCHANGED notMT

\* commands.pop(); return cmd;   (pop() of an empty container cannot happen
\* while the lock is held since the emptiness check; it is a no-op here.)
MTPopDo(t) ==
    /\ tpc[t] = "pop_do"
    /\ commands' = IF commands = << >> THEN commands
                   ELSE TryPopRest(commands)
    /\ poppedSeq' = Append(poppedSeq, tlocal[t])
    /\ tpc' = [tpc EXCEPT ![t] = "idle"]
    /\ queueMutex' = 0
    /\ tret' = [tret EXCEPT ![t] = PopRet(tlocal[t])]
    /\ tlocal' = [tlocal EXCEPT ![t] = 0]
    /\ UNCHANGED << maxQueueSize, qAlive, nextId, kind, owner, promise,
                    future, rejected, hpc, hres, executed, accepted,
                    midDrain, epc, cur >>
    /\ UNCHANGED targ
    /\ UNCHANGED notMT

NextMT ==
    \/ \E t \in Threads, isNull \in BOOLEAN : MTPushCall(t, isNull)
    \/ \E t \in Threads : MTPushLock(t)
    \/ \E t \in Threads : MTPushCheck(t)
    \/ \E t \in Threads : MTPushDo(t)
    \/ \E t \in Threads : MTPopCall(t)
    \/ \E t \in Threads : MTPopLock(t)
    \/ \E t \in Threads : MTPopCheck(t)
    \/ \E t \in Threads : MTPopDo(t)

SpecMT == Init /\ [][NextMT]_vars

NoDuplicates(q) == \A i, j \in 1..Len(q) : q[i] = q[j] => i = j

\* C11: under any interleaving of threads calling push and tryPop, every
\* accepted command is returned by tryPop at most once and is either already
\* popped or still queued: nothing is lost or duplicated, the number popped
\* plus the number queued equals the number accepted, so the queue is empty
\* exactly when all accepted commands have been popped.
C11_ConcurrentExactlyOnce ==
    /\ NoDuplicates(poppedSeq)
    /\ NoDuplicates(commands)
    /\ Elems(poppedSeq) \cup Elems(commands) = Elems(accepted)
    /\ Elems(poppedSeq) \cap Elems(commands) = {}
    /\ Len(poppedSeq) + Len(commands) = Len(accepted)
    /\ \A t \in Threads : tret[t].op = "pop" /\ tret[t].ok
                          => tret[t].cmd \in Elems(poppedSeq)

\* Two threads have each popped a different command and everything accepted
\* has been popped, leaving the queue empty.
C11_Witness ==
    /\ Len(accepted) >= 2
    /\ commands = << >>
    /\ Len(poppedSeq) = Len(accepted)
    /\ \E t, u \in Threads :
         /\ t # u
         /\ tret[t].op = "pop" /\ tret[t].ok
         /\ tret[u].op = "pop" /\ tret[u].ok
         /\ tret[t].cmd # tret[u].cmd

\* C12: a push of a null command returns false in the same step and leaves
\* the queue contents unchanged, whatever the queue's size is.
C12_NullPushRejected ==
    [][\A t \in Threads :
         (tpc[t] = "idle" /\ targ'[t] = 0 /\ tpc'[t] # "pop_lock"
          /\ (tret'[t] # tret[t] \/ tpc'[t] # tpc[t]))
         => /\ tret'[t] = PushRet(FALSE)
            /\ tpc'[t] = "idle"
            /\ commands' = commands
            /\ accepted' = accepted]_vars

\* A null push has returned false while the queue holds a command.
C12_Witness ==
    \E t \in Threads :
        /\ tpc[t] = "idle"
        /\ targ[t] = 0
        /\ tret[t] = PushRet(FALSE)
        /\ commands # << >>
        /\ Len(commands) < maxQueueSize

\* ================================================================ input overlay
\* uint8_t arithmetic of InputApi.cpp, computed bit by bit.
RECURSIVE BitAnd(_, _)
BitAnd(a, b) ==
    IF a = 0 \/ b = 0 THEN 0
    ELSE (a % 2) * (b % 2) + 2 * BitAnd(a \div 2, b \div 2)

RECURSIVE BitOr(_, _)
BitOr(a, b) ==
    IF a = 0 THEN b
    ELSE IF b = 0 THEN a
    ELSE (IF a % 2 = 1 \/ b % 2 = 1 THEN 1 ELSE 0)
         + 2 * BitOr(a \div 2, b \div 2)

\* ~x truncated to the 8 bits of a uint8_t
BitNot8(a) == 255 - a

\* Values the callers pass: button masks (A, A|B, Right) and raw states.
ButtonMasks == {1, 3, 128}

RawStates == {0, 2, 255}

\* FCEU_ApiSetJoypad is called with any int; only 0..3 are acted on.
SetWhich == -1..NumPorts

\* joyl = (joyl & apiJoypadMask1[which]) | apiJoypadMask2[which];
ReadJoypadResult_orOnly(joyl, m1, m2) == BitOr(joyl, m2)

ReadJoypadResult(joyl, m1, m2) == BitOr(BitAnd(joyl, m1), m2)

\* apiJoypadMask1[which] = 0xFF; apiJoypadMask2[which] = 0x00;
MaskAfterRead_keep(m, passThrough) == m

MaskAfterRead(m, passThrough) == passThrough

\* apiJoypadMask2[which] |= buttonMask;
ForceOn_overwrite(m2, buttonMask) == buttonMask

ForceOn(m2, buttonMask) == BitOr(m2, buttonMask)

\* apiJoypadMask1[which] &= ~buttonMask;
ForceOff(m1, buttonMask) == BitAnd(m1, BitNot8(buttonMask))

SetInRange(which) == ~(which < 0 \/ which > 3)

ApiReadJoypad(which, joyl) ==
    /\ lastSample' = [which |-> which, raw |-> joyl,
                      frame |-> currFrameCounter,
                      ret |-> ReadJoypadResult(joyl, apiJoypadMask1[which],
                                               apiJoypadMask2[which]),
                      prev |-> IF lastSample.which # which THEN "none"
                               ELSE IF lastSample.ret = lastSample.raw
                               THEN "raw" ELSE "forced"]
    /\ apiJoypadMask1' = [apiJoypadMask1 EXCEPT
                            ![which] = MaskAfterRead(@, ForceOffNone)]
    /\ apiJoypadMask2' = [apiJoypadMask2 EXCEPT
                            ![which] = MaskAfterRead(@, ForceOnNone)]
    /\ setCalls' = { c \in setCalls : c[1] # which }

FCEU_ApiReadJoypad(which, joyl) ==
    /\ ApiReadJoypad(which, joyl)
    /\ UNCHANGED notInput
    /\ UNCHANGED prvars

ApiSetJoypad(which, buttonMask, force) ==
    /\ IF SetInRange(which)
       THEN /\ IF force
               THEN /\ apiJoypadMask2' = [apiJoypadMask2 EXCEPT
                                            ![which] = ForceOn(@, buttonMask)]
                    /\ UNCHANGED apiJoypadMask1
               ELSE /\ apiJoypadMask1' = [apiJoypadMask1 EXCEPT
                                            ![which] = ForceOff(@, buttonMask)]
                    /\ UNCHANGED apiJoypadMask2
            /\ setCalls' = setCalls \cup {<< which, buttonMask, force >>}
            /\ lastSample' = IF lastSample.which = which THEN NoSample
                              ELSE lastSample
       ELSE UNCHANGED ovvars

FCEU_ApiSetJoypad(which, buttonMask, force) ==
    /\ ApiSetJoypad(which, buttonMask, force)
    /\ UNCHANGED notInput
    /\ UNCHANGED prvars

\* The body of FCEU_ApiClearJoypad with every port reset, as the loop of
\* FCEU_ApiClearAllJoypads does.
ApiClearJoypad_all(which) ==
    IF SetInRange(which)
    THEN /\ apiJoypadMask1' = [p \in Ports |-> ForceOffNone]
         /\ apiJoypadMask2' = [p \in Ports |-> ForceOnNone]
         /\ setCalls' = {}
         /\ UNCHANGED lastSample
    ELSE UNCHANGED ovvars

ApiClearJoypad(which) ==
    IF SetInRange(which)
    THEN /\ apiJoypadMask1' = [apiJoypadMask1 EXCEPT ![which] = ForceOffNone]
         /\ apiJoypadMask2' = [apiJoypadMask2 EXCEPT ![which] = ForceOnNone]
         /\ setCalls' = { c \in setCalls : c[1] # which }
         /\ UNCHANGED lastSample
    ELSE UNCHANGED ovvars

FCEU_ApiClearJoypad(which) ==
    /\ ApiClearJoypad(which)
    /\ UNCHANGED notInput
    /\ UNCHANGED prvars

ApiClearAllJoypads ==
    /\ apiJoypadMask1' = [p \in Ports |-> ForceOffNone]
    /\ apiJoypadMask2' = [p \in Ports |-> ForceOnNone]
    /\ setCalls' = {}
    /\ UNCHANGED lastSample

FCEU_ApiClearAllJoypads ==
    /\ ApiClearAllJoypads
    /\ UNCHANGED notInput
    /\ UNCHANGED prvars

\* Number of FCEU_ApiSetJoypad calls followed between two samples.
MaxSets == 2

NextOverlay ==
    \/ \E which \in Ports, joyl \in RawStates : FCEU_ApiReadJoypad(which, joyl)
    \/ \E which \in SetWhich, buttonMask \in ButtonMasks, force \in BOOLEAN :
         /\ Cardinality(setCalls) < MaxSets
         /\ FCEU_ApiSetJoypad(which, buttonMask, force)
    \/ \E which \in SetWhich : FCEU_ApiClearJoypad(which)
    \/ FCEU_ApiClearAllJoypads

SpecOverlay == Init /\ [][NextOverlay]_vars

Bit(x, i) == (x \div (2 ^ i)) % 2 = 1

Bits == 0..7

\* A step in which port p is sampled.
ReadStep(p) == lastSample' # lastSample /\ lastSample'.which = p

\* C13: sampling port p with raw state r returns, bit by bit,
\* (r AND forceOff[p]) OR forceOn[p] of the masks before the call; after the
\* call forceOff[p] = 0xFF and forceOn[p] = 0x00, and the masks of every
\* other port are what they were.
C13_SampleFormula ==
    [][\A p \in Ports : ReadStep(p) =>
         /\ \A i \in Bits :
              Bit(lastSample'.ret, i) <=>
                 ((Bit(lastSample'.raw, i) /\ Bit(apiJoypadMask1[p], i))
                  \/ Bit(apiJoypadMask2[p], i))
         /\ lastSample'.ret \in 0..255
         /\ apiJoypadMask1'[p] = 255
         /\ apiJoypadMask2'[p] = 0
         /\ \A q \in Ports \ {p} :
              /\ apiJoypadMask1'[q] = apiJoypadMask1[q]
              /\ apiJoypadMask2'[q] = apiJoypadMask2[q]]_vars

\* A sample whose result has a bit forced on that the raw state lacks,
\* taken while another port holds a mask that must survive the call.
C13_Witness ==
    /\ lastSample # NoSample
    /\ \E j \in Bits : ~Bit(lastSample.raw, j) /\ Bit(lastSample.ret, j)
    /\ \E q \in Ports : q # lastSample.which /\ apiJoypadMask1[q] # 255

\* C14: a sample of a port that directly follows a sample of the same port,
\* with no FCEU_ApiSetJoypad on that port in between, returns the raw state,
\* whatever masks were set before the first of the two.
C14_SingleSample ==
    lastSample.prev # "none" => lastSample.ret = lastSample.raw

\* The first of two samples in a row was forced and the second returned a
\* raw state that has bits both on and off.
C14_Witness ==
    /\ lastSample.prev = "forced"
    /\ lastSample.ret = lastSample.raw
    /\ lastSample.raw = 2

\* C15: the masks of a port are determined by the set of FCEU_ApiSetJoypad
\* calls made since its last sample, whatever their order: a bit is forced
\* on iff some force-on call named it, and passes the AND mask iff no
\* force-off call named it; so A then B forces both A and B on.
C15_Composition ==
    \A p \in Ports : \A i \in Bits :
        /\ Bit(apiJoypadMask2[p], i) <=>
             \E c \in setCalls : c[1] = p /\ c[3] /\ Bit(c[2], i)
        /\ Bit(apiJoypadMask1[p], i) <=>
             \A c \in setCalls : (c[1] = p /\ ~c[3]) => ~Bit(c[2], i)

\* Two force-on calls with different masks are pending on one port and both
\* of their bits are on in the OR mask.
C15_Witness ==
    \E p \in Ports :
        /\ << p, 1, TRUE >> \in setCalls
        /\ << p, 128, TRUE >> \in setCalls
        /\ apiJoypadMask2[p] = 129

\* ================================================= timed presses and releases
\* Frames the emulation loop runs, and press commands executed.
MaxFrame == 7

MaxPresses == 2

\* buttonNameMap: JOY_A .. JOY_RIGHT
ButtonBit(name) ==
    CASE name = "A" -> 1
      [] name = "B" -> 2
      [] name = "Select" -> 4
      [] name = "Start" -> 8
      [] name = "Up" -> 16
      [] name = "Down" -> 32
      [] name = "Left" -> 64
      [] name = "Right" -> 128

\* mask |= it->second, for each name
RECURSIVE ButtonNamesToBitmask(_)
ButtonNamesToBitmask(names) ==
    IF names = {} THEN 0
    ELSE LET n == CHOOSE x \in names : TRUE
         IN BitOr(ButtonBit(n), ButtonNamesToBitmask(names \ {n}))

\* int frames = (durationMs + 16) / 17; if (frames < 1) frames = 1;
\* a duration that is not positive presses for one frame.
DurationToFrames(durationMs) ==
    IF durationMs > 0
    THEN LET frames == (durationMs + 16) \div 17
         IN IF frames < 1 THEN 1 ELSE frames
    ELSE 1

\* if (currentFrame >= it->releaseFrame)
ReleaseDue_late(currentFrame, releaseFrame) == currentFrame > releaseFrame

ReleaseDue(currentFrame, releaseFrame) == currentFrame >= releaseFrame

\* The loop of processPendingReleases: the OR masks after every due entry
\* cleared its bits ...
RECURSIVE ReleasedMask2(_, _, _)
ReleasedMask2(list, m2, currentFrame) ==
    IF list = << >> THEN m2
    ELSE LET it == Head(list)
         IN ReleasedMask2(Tail(list),
                IF ReleaseDue(currentFrame, it.releaseFrame)
                THEN [m2 EXCEPT ![it.port] = BitAnd(@, BitNot8(it.buttonMask))]
                ELSE m2,
                currentFrame)

\* ... and the entries it did not erase.
RECURSIVE RemainingReleases(_, _)
RemainingReleases(list, currentFrame) ==
    IF list = << >> THEN << >>
    ELSE IF ReleaseDue(currentFrame, Head(list).releaseFrame)
         THEN RemainingReleases(Tail(list), currentFrame)
         ELSE << Head(list) >> \o RemainingReleases(Tail(list), currentFrame)

\* pendingReleases.push_back({port, buttonMask, releaseFrame});
AddPendingRelease(list, port, buttonMask, releaseFrame) ==
    Append(list, [port |-> port, buttonMask |-> buttonMask,
                  releaseFrame |-> releaseFrame])

\* Inputs of the press commands.
PortNums == {1, 2}

ButtonSets == {{"A"}, {"A", "B"}}

Durations == {0, 100}

npresses == Len(presses)

lastPress == IF presses = << >> THEN NoPress ELSE presses[Len(presses)]

\* InputPressCommand: construction (port = portNum - 1 as uint8_t, rejected
\* when > 3) and execute() while the emulator lock is held.
InputPress(portNum, buttons, durationMs) ==
    LET port == (portNum - 1) % 256
        buttonMask == ButtonNamesToBitmask(buttons)
        releaseFrame == currFrameCounter + DurationToFrames(durationMs)
    IN /\ fpc \in {"drain", "ticked"}
       /\ sport = 0
       /\ npresses < MaxPresses
       /\ ~(port > 3)
       /\ IF ~GameInfo
          THEN UNCHANGED << ovvars, prvars >>
          ELSE /\ ApiSetJoypad(port, buttonMask, TRUE)
               /\ pendingReleases' =
                     AddPendingRelease(pendingReleases, port, buttonMask,
                                       releaseFrame)
               /\ presses' = Append(presses,
                                     [port |-> port, buttonMask |-> buttonMask,
                                      durationMs |-> durationMs,
                                      frame |-> currFrameCounter,
                                      releaseFrame |-> releaseFrame])
               /\ UNCHANGED << currFrameCounter, GameInfo, fpc, sport >>
       /\ UNCHANGED notInput

\* InputReleaseManager::processPendingReleases, once per frame.
ProcessPendingReleases ==
    /\ fpc = "drain"
    /\ fpc' = "ticked"
    /\ apiJoypadMask2' = ReleasedMask2(pendingReleases, apiJoypadMask2,
                                       currFrameCounter)
    /\ pendingReleases' = RemainingReleases(pendingReleases, currFrameCounter)
    /\ UNCHANGED << apiJoypadMask1, lastSample, setCalls >>
    /\ UNCHANGED << currFrameCounter, GameInfo, sport, presses >>
    /\ UNCHANGED notInput

\* The emulation loop reads the controllers: one sample of each port per
\* frame, then the frame counter advances.
EmuSample(joyl) ==
    /\ fpc = "ticked"
    /\ ApiReadJoypad(sport, joyl)
    /\ IF sport < NumPorts - 1
       THEN /\ sport' = sport + 1
            /\ UNCHANGED << fpc, currFrameCounter >>
       ELSE /\ currFrameCounter < MaxFrame
            /\ sport' = 0
            /\ fpc' = "drain"
            /\ currFrameCounter' = currFrameCounter + 1
    /\ UNCHANGED << pendingReleases, GameInfo, presses >>
    /\ UNCHANGED notInput

\* Raw controller states while the API drives the input.
EmuRaw == {0, 2}

NextPress ==
    \/ \E portNum \in PortNums, buttons \in ButtonSets,
          durationMs \in Durations : InputPress(portNum, buttons, durationMs)
    \/ ProcessPendingReleases
    \/ \E joyl \in EmuRaw : EmuSample(joyl)

SpecPress == Init /\ [][NextPress]_vars

TickStep == fpc = "drain" /\ fpc' = "ticked"

Entries(list) == { list[i] : i \in 1..Len(list) }

\* C16: a tick at frame f keeps, in order, every entry whose releaseFrame is
\* later than f and removes every entry with releaseFrame <= f; on each port
\* it clears from the force-on mask exactly the bits of the removed entries
\* of that port (none when no entry of the port is due) and it leaves the
\* force-off masks unchanged.
C16_ScheduledRelease ==
    [][TickStep =>
         /\ pendingReleases' =
               SelectSeq(pendingReleases,
                         LAMBDA e : currFrameCounter < e.releaseFrame)
         /\ \A p \in Ports : \A i \in Bits :
              Bit(apiJoypadMask2'[p], i) <=>
                 /\ Bit(apiJoypadMask2[p], i)
                 /\ ~\E e \in Entries(pendingReleases) :
                        /\ e.releaseFrame <= currFrameCounter
                        /\ e.port = p
                        /\ Bit(e.buttonMask, i)
         /\ apiJoypadMask1' = apiJoypadMask1]_vars

\* A tick has just removed a due entry and cleared its bit while an entry
\* with a later release frame stays pending and another bit of the same
\* port stays forced on.
C16_Witness ==
    /\ fpc = "ticked"
    /\ npresses = 2
    /\ Len(pendingReleases) = 1
    /\ pendingReleases[1].releaseFrame > currFrameCounter
    /\ \E p \in Ports : apiJoypadMask2[p] = 2

\* C17: after the only press so far, InputPressCommand(port=1, ['A'], 100 ms)
\* executed at frame F with a game loaded, a release of A on port 0 is
\* pending for frame F+6 until that frame's tick, every sample of port 0
\* taken in frames F .. F+5 has A on, and samples of port 0 from frame F+6
\* on show A as the raw state has it.
C17_TimedPressHeld ==
    (/\ npresses = 1
     /\ lastPress.port = 0
     /\ lastPress.buttonMask = 1
     /\ lastPress.durationMs = 100)
    => /\ currFrameCounter < lastPress.frame + 6
          => [port |-> 0, buttonMask |-> 1,
              releaseFrame |-> lastPress.frame + 6]
                \in Entries(pendingReleases)
       /\ (/\ lastSample.which = 0
           /\ lastSample.frame >= lastPress.frame
           /\ lastSample.frame < lastPress.frame + 6)
          => Bit(lastSample.ret, 0)
       /\ (lastSample.which = 0 /\ lastSample.frame >= lastPress.frame + 6)
          => (Bit(lastSample.ret, 0) <=> Bit(lastSample.raw, 0))

\* ============================================== duration-to-frames conversion
\* The emulator loads or closes a game between frames.
EmuSetGame(loaded) ==
    /\ fpc = "drain"
    /\ GameInfo # loaded
    /\ GameInfo' = loaded
    /\ UNCHANGED << pendingReleases, currFrameCounter, fpc, sport, presses >>
    /\ UNCHANGED ovvars
    /\ UNCHANGED notInput

\* Press durations in milliseconds, negative ones included.
MaxDuration == 70

PressDurations == -3..MaxDuration

\* The first press command: A on port 1, of any duration.
PressOnce(durationMs) ==
    /\ presses = << >>
    /\ InputPress(1, {"A"}, durationMs)

NextDuration ==
    \/ \E durationMs \in PressDurations : PressOnce(durationMs)
    \/ \E loaded \in BOOLEAN : EmuSetGame(loaded)
    \/ ProcessPendingReleases
    \/ \E joyl \in EmuRaw : EmuSample(joyl)

SpecDuration == Init /\ [][NextDuration]_vars

\* The nominal frame duration of a 60 Hz core, 16.67 ms, in 1/100 ms.
NominalFrameHundredths == 1667

\* durationMs / 16.67 rounded up, at least 1
NominalFrames(durationMs) ==
    IF durationMs <= 0 THEN 1
    ELSE LET h == durationMs * 100
             n == (h + NominalFrameHundredths - 1) \div NominalFrameHundredths
         IN IF n < 1 THEN 1 ELSE n

\* C18: whatever the duration, the release of a press executed at frame F
\* is scheduled at F + n, n = duration / 16.67 ms rounded up and never less
\* than 1 (exactly 1 for a zero or negative duration).
C18_DurationToFrames ==
    (lastPress # NoPress /\ pendingReleases # << >>)
    => pendingReleases[Len(pendingReleases)].releaseFrame
          = lastPress.frame + NominalFrames(lastPress.durationMs)

\* ========================================================= overlapping presses
Max(a, b) == IF a >= b THEN a ELSE b

\* Two presses name the same button of the same port and the second one is
\* executed before the release frame of the first.
Overlap(a, b) ==
    /\ a.port = b.port
    /\ a.frame <= b.frame
    /\ b.frame < a.releaseFrame

\* C19: when two timed presses of a button on one port overlap, every sample
\* of that port taken from the second press until the later of the two
\* release frames has the button on: the release of the earlier press does
\* not end the coverage of the other.
C19_OverlapExtends ==
    \A j, k \in 1..Len(presses) :
        (j < k /\ Overlap(presses[j], presses[k])) =>
           \A i \in Bits :
              (/\ Bit(presses[j].buttonMask, i)
               /\ Bit(presses[k].buttonMask, i)
               /\ lastSample.which = presses[k].port
               /\ lastSample.frame >= presses[k].frame
               /\ lastSample.frame < Max(presses[j].releaseFrame,
                                         presses[k].releaseFrame))
              => Bit(lastSample.ret, i)

\* ================================================================ memory writes
\* const uint16_t MAX_MEMORY_RANGE_LENGTH = 4096;
MAX_MEMORY_RANGE_LENGTH == 4096

\* Size of the CPU address space, 0x10000, and the last RAM address, 0x07FF.
AddressSpaceEnd == 65536

RamLast == 2047

\* Byte i (from 1) of the data of a write: the model fixes the payload.
DataByte(i) == (i % 255) + 1

\* FCEU_CheatGetByte / FCEU_CheatSetByte on the emulator memory.
MemGet(m, a) == IF a \in DOMAIN m THEN m[a] ELSE 0

MemSet(m, a, v) == [x \in (DOMAIN m) \cup {a} |-> IF x = a THEN v ELSE m[x]]

\* MemoryRangeWriteCommand::isWriteSafe(uint16_t start, uint16_t length)
\* It takes no cartridge information: SRAM support is a TODO in the code.
IsWriteSafe(start, length) ==
    LET end == start + length
        lastAddress == (start + length - 1) % 65536
    IN IF end > AddressSpaceEnd THEN FALSE
       ELSE IF lastAddress <= RamLast THEN TRUE
       ELSE FALSE

\* The checks of a write in the order the code makes them.
WriteOutcome(start, length, battery, game) ==
    IF length = 0 THEN "No data to write"
    ELSE IF length > MAX_MEMORY_RANGE_LENGTH
    THEN "Data size exceeds maximum allowed (4096 bytes)"
    ELSE IF ~game THEN "No game loaded"
    ELSE IF ~IsWriteSafe(start, length)
    THEN "Memory range is not safe to write"
    ELSE "ok"

\* The checks of MemoryBatchCommand::executeWrite.
BatchWriteOutcome(start, length) ==
    IF length = 0 THEN "No data to write"
    ELSE IF length > MAX_MEMORY_RANGE_LENGTH
    THEN "Data size exceeds maximum allowed"
    ELSE IF ~IsWriteSafe(start, length)
    THEN "Memory range is not safe to write"
    ELSE "ok"

\* if (endAddress > 0x10000) throw ...
ReadInBounds_unchecked(start, length) == TRUE

ReadInBounds(start, length) == ~(start + length > AddressSpaceEnd)

\* The checks of MemoryRangeReadCommand::execute in the order of the code.
ReadOutcome(start, length, game) ==
    IF length = 0 THEN "Length must be greater than 0"
    ELSE IF length > MAX_MEMORY_RANGE_LENGTH
    THEN "Length exceeds maximum allowed (4096 bytes)"
    ELSE IF ~ReadInBounds(start, length)
    THEN "Address range exceeds memory bounds"
    ELSE IF ~game THEN "No game loaded"
    ELSE "ok"

\* The checks of MemoryBatchCommand::executeRead.
BatchReadOutcome(start, length) ==
    IF length = 0 THEN "Length must be greater than 0"
    ELSE IF length > MAX_MEMORY_RANGE_LENGTH
    THEN "Length exceeds maximum allowed"
    ELSE IF ~ReadInBounds(start, length)
    THEN "Address range exceeds memory bounds"
    ELSE "ok"

\* for (uint16_t i = 0; i < length; i++) FCEU_CheatGetByte(startAddress + i):
\* the address passed for loop index i, the bytes pushed to result.data and
\* the highest address passed (-1 when the loop is not reached).
ReadAddr(start, i) == start + i

ReadData(m, start, length, outcome) ==
    IF outcome = "ok"
    THEN [k \in 1..length |-> MemGet(m, ReadAddr(start, k - 1))]
    ELSE << >>

ReadLastAddr(start, length, outcome) ==
    IF outcome = "ok" THEN ReadAddr(start, length - 1) ELSE -1

\* Start addresses around the boundaries of the policy, and data sizes.
WriteStarts == {0, 2046, 2047, 2048, 24575, 24576, 32767, 32768, 65535}

WriteLengths == {0, 1, 2, 4096, 4097}

\* What the write leaves alone.
notMem == << qvars, mtvars, ovvars, prvars, batvars, httpvars, sysvars,
           cmdvars >>

\* for (i = 0; i < data.size(); i++) FCEU_CheatSetByte(startAddress + i, data[i]);
RECURSIVE WriteLoop(_, _, _, _)
WriteLoop(m, start, length, i) ==
    IF i >= length THEN m
    ELSE WriteLoop(MemSet(m, start + i, DataByte(i + 1)), start, length, i + 1)

\* The loop is reached only when every check passed.
WriteEffect_unchecked(m, start, length, outcome) ==
    IF length \in 1..MAX_MEMORY_RANGE_LENGTH
    THEN WriteLoop(m, start, 1, 0) ELSE m

WriteEffect(m, start, length, outcome) ==
    IF outcome = "ok" THEN WriteLoop(m, start, length, 0) ELSE m

\* result.bytesWritten++ once per byte of the loop
BytesWritten(length, outcome) == IF outcome = "ok" THEN length ELSE 0

\* MemoryRangeWriteCommand::execute with data.size() = length, on a
\* cartridge that is battery-backed or not.
MemoryRangeWrite(start, length, battery) ==
    LET o == WriteOutcome(start, length, battery, GameInfo)
    IN /\ lastWrite' = [kind |-> "range", start |-> start, length |-> length,
                        battery |-> battery, game |-> GameInfo, outcome |-> o,
                        bytesWritten |-> BytesWritten(length, o)]
       /\ mem' = WriteEffect(mem, start, length, o)
       /\ lastRead' = NoRead
       /\ UNCHANGED notMem

\* MemoryBatchCommand::execute reaching executeWrite for one operation: the
\* command checks the game once, the operation validates its own data.
MemoryBatchWrite(start, length, battery) ==
    LET o == IF ~GameInfo THEN "No game loaded"
             ELSE BatchWriteOutcome(start, length)
    IN /\ lastWrite' = [kind |-> "batch", start |-> start, length |-> length,
                        battery |-> battery, game |-> GameInfo, outcome |-> o,
                        bytesWritten |-> BytesWritten(length, o)]
       /\ mem' = WriteEffect(mem, start, length, o)
       /\ lastRead' = NoRead
       /\ UNCHANGED notMem

\* Start addresses and lengths of reads around the end of the address space.
ReadStarts == {0, 2047, 61440, 61441, 65535}

ReadLengths == {0, 1, 2, 4096, 4097}

\* MemoryRangeReadCommand::execute
MemoryRangeRead(start, length) ==
    LET o == ReadOutcome(start, length, GameInfo)
    IN /\ lastRead' = [kind |-> "range", start |-> start, length |-> length,
                       game |-> GameInfo, outcome |-> o,
                       lastAddr |-> ReadLastAddr(start, length, o),
                       data |-> ReadData(mem, start, length, o)]
       /\ lastWrite' = NoWrite
       /\ UNCHANGED mem
       /\ UNCHANGED notMem

\* MemoryBatchCommand::execute reaching executeRead for one operation.
MemoryBatchRead(start, length) ==
    LET o == IF ~GameInfo THEN "No game loaded"
             ELSE BatchReadOutcome(start, length)
    IN /\ lastRead' = [kind |-> "batch", start |-> start, length |-> length,
                       game |-> GameInfo, outcome |-> o,
                       lastAddr |-> ReadLastAddr(start, length, o),
                       data |-> ReadData(mem, start, length, o)]
       /\ lastWrite' = NoWrite
       /\ UNCHANGED mem
       /\ UNCHANGED notMem

\* Reads, with writes at the start of RAM and of cartridge SRAM.
ReadSpecWriteStarts == {0, 24576}

ReadSpecWriteLengths == {1, 2, 4096}

NextMemRead ==
    \/ \E start \in ReadStarts, length \in ReadLengths :
         MemoryRangeRead(start, length)
    \/ \E start \in ReadStarts, length \in ReadLengths :
         MemoryBatchRead(start, length)
    \/ \E start \in ReadSpecWriteStarts, length \in ReadSpecWriteLengths,
          battery \in BOOLEAN : MemoryRangeWrite(start, length, battery)
    \/ \E loaded \in BOOLEAN : EmuSetGame(loaded)

SpecMemRead == Init /\ [][NextMemRead]_vars

NextMem ==
    \/ \E start \in WriteStarts, length \in WriteLengths, battery \in BOOLEAN :
         MemoryRangeWrite(start, length, battery)
    \/ \E start \in WriteStarts, length \in WriteLengths, battery \in BOOLEAN :
         MemoryBatchWrite(start, length, battery)
    \/ \E loaded \in BOOLEAN : EmuSetGame(loaded)

SpecMem == Init /\ [][NextMem]_vars

\* The write-safety policy, address by address.
PolicyAllows(a, battery) ==
    \/ a \in 0..2047
    \/ (a \in 24576..32767 /\ battery)

\* C20: a write that gets as far as the safety check (data present and within
\* the size limit, game loaded) is accepted exactly when every target address
\* lies in 0x0000-0x07FF, or in 0x6000-0x7FFF with a battery-backed
\* cartridge; otherwise it fails with the unsafe-write error.
C20_WriteSafetyPolicy ==
    lastWrite.outcome \in {"ok", "Memory range is not safe to write"} =>
       (lastWrite.outcome = "ok" <=>
          \A a \in lastWrite.start..(lastWrite.start + lastWrite.length - 1) :
             PolicyAllows(a, lastWrite.battery))

WriteRange(w) == w.start..(w.start + w.length - 1)

\* A step that executes a write command.
WriteStep == lastWrite' # lastWrite /\ lastWrite'.kind # "none"

\* C21: a write whose data is empty or longer than 4096 bytes, that finds no
\* game loaded, or that has a byte outside the address space or outside the
\* writable policy is rejected and leaves emulator memory as it was; an
\* accepted write leaves its data in every byte of the range, reports
\* bytesWritten = data length and changes no other address.
C21_AllOrNothing ==
    [][WriteStep =>
         LET w == lastWrite'
         IN /\ (\/ w.length = 0
                \/ w.length > 4096
                \/ ~GameInfo
                \/ \E a \in WriteRange(w) :
                      a > 65535 \/ ~PolicyAllows(a, w.battery))
               => w.outcome # "ok"
            /\ w.outcome # "ok" => (mem' = mem /\ w.bytesWritten = 0)
            /\ w.outcome = "ok" =>
                 /\ w.bytesWritten = w.length
                 /\ \A a \in WriteRange(w) :
                       MemGet(mem', a) = DataByte(a - w.start + 1)
                 /\ \A a \in (DOMAIN mem \cup DOMAIN mem') \ WriteRange(w) :
                       MemGet(mem', a) = MemGet(mem, a)]_vars

\* A two-byte write was rejected at its second byte (0x07FF, 0x0800) after
\* an earlier write had put data into memory, which is still there.
C21_Witness ==
    /\ lastWrite.start = 2047
    /\ lastWrite.length = 2
    /\ lastWrite.outcome = "Memory range is not safe to write"
    /\ MemGet(mem, 2046) = DataByte(1)
    /\ MemGet(mem, 2047) = DataByte(2)

\* C22: for range reads and range writes a length of 0 and a length of 4097
\* or more are rejected, and with a game loaded a length of exactly 4096
\* succeeds when the range lies inside the permitted address space (for a
\* read the 64 KiB space, for a write the writable policy).
C22_LengthLimits ==
    /\ lastRead.kind # "none" =>
         /\ (lastRead.length = 0 \/ lastRead.length >= 4097)
               => lastRead.outcome # "ok"
         /\ (/\ lastRead.length = 4096
             /\ lastRead.game
             /\ lastRead.start + 4096 <= 65536) => lastRead.outcome = "ok"
    /\ lastWrite.kind # "none" =>
         /\ (lastWrite.length = 0 \/ lastWrite.length >= 4097)
               => lastWrite.outcome # "ok"
         /\ (/\ lastWrite.length = 4096
             /\ lastWrite.game
             /\ \A a \in WriteRange(lastWrite) :
                   PolicyAllows(a, lastWrite.battery))
            => lastWrite.outcome = "ok"

\* C23: a read with start + length > 0x10000 is rejected; an accepted read
\* returns exactly length bytes, byte i being the content of address
\* start + i, in ascending order, the highest address read being
\* start + length - 1 and at most 0xFFFF.
C23_ReadBounds ==
    lastRead.kind # "none" =>
       /\ lastRead.start + lastRead.length > 65536 => lastRead.outcome # "ok"
       /\ lastRead.outcome # "ok" =>
            (lastRead.data = << >> /\ lastRead.lastAddr = -1)
       /\ lastRead.outcome = "ok" =>
            /\ Len(lastRead.data) = lastRead.length
            /\ lastRead.lastAddr = lastRead.start + lastRead.length - 1
            /\ lastRead.lastAddr <= 65535
            /\ \A i \in 1..lastRead.length :
                 lastRead.data[i] = MemGet(mem, lastRead.start + (i - 1))

\* A 4096-byte read ending exactly at 0xFFFF succeeded while RAM held
\* written data.
C23_Witness ==
    /\ lastRead.outcome = "ok"
    /\ lastRead.start = 61440
    /\ lastRead.length = 4096
    /\ lastRead.lastAddr = 65535
    /\ Len(lastRead.data) = 4096
    /\ MemGet(mem, 1) = DataByte(2)

\* ---------------------------------------------------------------------
\* MemoryBatchCommand: a sequence of read / write operations executed under
\* one acquisition of the emulator-state lock.

MaxBatchOperations == 100

\* A valid read, a read across the end of the address space, a valid write,
\* a write whose second byte leaves RAM, and an operation of unknown type.
OpReadOk == [type |-> "read", address |-> 0, length |-> 2, data |-> << >>]

OpReadBad == [type |-> "read", address |-> 65535, length |-> 2, data |-> << >>]

OpWriteOk == [type |-> "write", address |-> 0, length |-> 0, data |-> <<7, 8>>]

OpWriteBad ==
    [type |-> "write", address |-> 2047, length |-> 0, data |-> <<9, 9>>]

OpUnknown == [type |-> "copy", address |-> 16, length |-> 1, data |-> << >>]

BatchOps == {OpReadOk, OpReadBad, OpWriteOk, OpWriteBad, OpUnknown}

BatchLens == {1, 2, 3}

\* The operation lists submitted: none, short mixed ones, and uniform ones
\* at and just above the limit.
Batches ==
    {<< >>}
      \cup UNION {[1..n -> BatchOps] : n \in BatchLens}
      \cup {[i \in 1..n |-> op] :
              n \in {MaxBatchOperations, MaxBatchOperations + 1},
              op \in {OpReadOk, OpWriteOk}}

\* if (operations.empty()) throw ...; if (operations.size() > 100) throw ...
BatchSizeError_loose(n) ==
    IF n = 0 THEN "No operations provided"
    ELSE IF n > MaxBatchOperations + 1
         THEN "Too many operations (maximum 100)"
         ELSE "none"

BatchSizeError(n) ==
    IF n = 0 THEN "No operations provided"
    ELSE IF n > MaxBatchOperations
         THEN "Too many operations (maximum 100)"
         ELSE "none"

\* FCEU_WRAPPER_LOCK() returns once no other thread holds the lock.
LockAvailable_always(l) == TRUE

LockAvailable(l) == l = "none"

\* for (i = 0; i < op.data.size(); i++) FCEU_CheatSetByte(op.address + i, op.data[i])
RECURSIVE WriteData(_, _, _, _)
WriteData(m, address, data, i) ==
    IF i >= Len(data) THEN m
    ELSE WriteData(MemSet(m, address + i, data[i + 1]), address, data, i + 1)

\* executeRead: the result entry of a read operation.
ExecuteRead(m, op) ==
    LET o == BatchReadOutcome(op.address, op.length)
    IN [type |-> "read", address |-> op.address, success |-> (o = "ok"),
        data |-> ReadData(m, op.address, op.length, o), bytesWritten |-> 0,
        error |-> IF o = "ok" THEN "" ELSE o]

\* executeWrite: the result entry of a write operation.
ExecuteWrite(op) ==
    LET o == BatchWriteOutcome(op.address, Len(op.data))
    IN [type |-> "write", address |-> op.address, success |-> (o = "ok"),
        data |-> << >>,
        bytesWritten |-> IF o = "ok" THEN Len(op.data) ELSE 0,
        error |-> IF o = "ok" THEN "" ELSE o]

\* The body of the loop over the operations: the entry pushed to
\* result.results (bytesWritten is read for successful writes only).
OpResult(m, op) ==
    IF op.type = "read" THEN ExecuteRead(m, op)
    ELSE IF op.type = "write" THEN ExecuteWrite(op)
    ELSE [type |-> op.type, address |-> op.address, success |-> FALSE,
          data |-> << >>, bytesWritten |-> 0,
          error |-> "Unknown operation type"]

\* The memory the loop body leaves.
OpEffect(m, op) ==
    IF op.type = "write" /\ BatchWriteOutcome(op.address, Len(op.data)) = "ok"
    THEN WriteData(m, op.address, op.data, 0)
    ELSE m

\* for (const auto& op : operations): an operation is left to execute.
OpsRemaining_abort(b) ==
    /\ Len(b.results) < Len(b.ops)
    /\ \A i \in 1..Len(b.results) : b.results[i].success

OpsRemaining(b) == Len(b.results) < Len(b.ops)

\* What the batch command leaves alone besides memory.
notBatch == << qvars, mtvars, ovvars, prvars, httpvars, sysvars,
           cmdvars >>

\* execute(), up to the lock: the size checks. A command object is executed
\* once.
BatchSubmit(ops) ==
    /\ batch.pc = "idle"
    /\ LET e == BatchSizeError(Len(ops))
       IN batch' = [ops |-> ops, pc |-> IF e = "none" THEN "wait" ELSE "done",
                    results |-> << >>, error |-> e, mem0 |-> << >>]
    /\ UNCHANGED << emuLock, memvars, notBatch >>

\* FCEU_WRAPPER_LOCK() and the game check.
BatchLock ==
    /\ batch.pc = "wait"
    /\ LockAvailable(emuLock)
    /\ IF ~GameInfo
       THEN /\ batch' = [batch EXCEPT !.pc = "done", !.error = "No game loaded"]
            /\ UNCHANGED emuLock
       ELSE /\ batch' = [batch EXCEPT !.pc = "ops", !.mem0 = mem]
            /\ emuLock' = "batch"
    /\ UNCHANGED << memvars, notBatch >>

\* One iteration of the loop.
BatchOp ==
    /\ batch.pc = "ops"
    /\ OpsRemaining(batch)
    /\ LET op == batch.ops[Len(batch.results) + 1]
       IN /\ batch' = [batch EXCEPT
                         !.results = Append(@, OpResult(mem, op))]
          /\ mem' = OpEffect(mem, op)
    /\ UNCHANGED << emuLock, lastWrite, lastRead, notBatch >>

\* FCEU_WRAPPER_UNLOCK() and resultPromise.set_value(result).
BatchFinish ==
    /\ batch.pc = "ops"
    /\ ~OpsRemaining(batch)
    /\ batch' = [batch EXCEPT !.pc = "done"]
    /\ emuLock' = "none"
    /\ UNCHANGED << memvars, notBatch >>

\* Another command executes: it takes and releases the lock itself.
OtherCommand ==
    /\ LockAvailable(emuLock)
    /\ MemoryRangeWrite(0, 1, FALSE)

EmuRamValues == {5, 6}

\* The emulation thread runs a frame under the lock; the game stores to RAM.
EmuFrame ==
    /\ LockAvailable(emuLock)
    /\ \E v \in EmuRamValues :
         /\ MemGet(mem, 1) # v
         /\ mem' = MemSet(mem, 1, v)
    /\ UNCHANGED << lastWrite, lastRead, notMem >>

\* The emulation thread loads or closes a game under the lock.
EmuLoadGame(loaded) ==
    /\ LockAvailable(emuLock)
    /\ EmuSetGame(loaded)

NextBatch ==
    \/ \E ops \in Batches : BatchSubmit(ops)
    \/ BatchLock
    \/ BatchOp
    \/ BatchFinish
    \/ OtherCommand
    \/ EmuFrame
    \/ \E loaded \in BOOLEAN : EmuLoadGame(loaded)

SpecBatch == Init /\ [][NextBatch]_vars

\* What the claims expect of an operation: a read is valid when its length
\* is 1..4096 and it ends inside the address space, a write when its data
\* has 1..4096 bytes and ends inside RAM.
OpValid(op) ==
    \/ /\ op.type = "read"
       /\ op.length \in 1..4096
       /\ op.address + op.length <= 65536
    \/ /\ op.type = "write"
       /\ Len(op.data) \in 1..4096
       /\ op.address + Len(op.data) - 1 <= 2047

\* Memory after the first n operations, the valid writes applied in order.
RECURSIVE ExpectedMem(_, _, _)
ExpectedMem(m, ops, n) ==
    IF n = 0 THEN m
    ELSE LET before == ExpectedMem(m, ops, n - 1)
             op == ops[n]
         IN IF op.type = "write" /\ OpValid(op)
            THEN [a \in DOMAIN before \cup
                        (op.address..(op.address + Len(op.data) - 1)) |->
                    IF a \in op.address..(op.address + Len(op.data) - 1)
                    THEN op.data[a - op.address + 1]
                    ELSE before[a]]
            ELSE before

\* The step in which a batch that reached the operations delivers its result.
BatchDelivers == batch.pc = "ops" /\ batch'.pc = "done"

\* C24: a batch of n operations (1 <= n <= 100) yields exactly n result
\* entries, in the order and with the type and address of the operations;
\* an invalid operation records success = false and an error in its own
\* entry only, and every valid operation has its effect whatever the others
\* did: reads return the memory left by the valid writes before them, and
\* memory ends as the valid writes applied in order leave it.
C24_BatchIsolation ==
    [][BatchDelivers =>
         LET b == batch'
             n == Len(b.ops)
         IN /\ n \in 1..100
            /\ Len(b.results) = n
            /\ \A i \in 1..n :
                 LET op == b.ops[i]
                     r == b.results[i]
                 IN /\ r.type = op.type
                    /\ r.address = op.address
                    /\ r.success = OpValid(op)
                    /\ (r.error # "") = ~OpValid(op)
                    /\ (op.type = "read" /\ OpValid(op)) =>
                         r.data = [k \in 1..op.length |->
                                     MemGet(ExpectedMem(b.mem0, b.ops, i - 1),
                                            op.address + k - 1)]
                    /\ (op.type = "write" /\ OpValid(op)) =>
                         r.bytesWritten = Len(op.data)
            /\ mem' = ExpectedMem(b.mem0, b.ops, n)]_vars

\* A batch write, invalid write, read delivered [success, failure, success],
\* the read returning the bytes the first operation wrote.
C24_Witness ==
    /\ batch.pc = "done"
    /\ batch.ops = <<OpWriteOk, OpWriteBad, OpReadOk>>
    /\ Len(batch.results) = 3
    /\ batch.results[1].success
    /\ ~batch.results[2].success
    /\ batch.results[3].success
    /\ batch.results[3].data = <<7, 8>>

SizeErrors == {"No operations provided", "Too many operations (maximum 100)"}

\* C25: a batch with zero or with more than 100 operations is rejected as a
\* whole with an error, no operation of it is ever executed and its
\* rejection modifies no memory; a batch of exactly 100 operations passes
\* the size check and, executed, yields 100 results.
C25_BatchSizeLimit ==
    [][batch'.pc # "idle" =>
         LET b == batch'
             n == Len(b.ops)
         IN /\ (n = 0 \/ n > 100) =>
                 /\ b.pc = "done"
                 /\ b.error \in SizeErrors
                 /\ b.results = << >>
                 /\ batch.pc = "idle" => mem' = mem
            /\ n = 100 =>
                 /\ b.error \notin SizeErrors
                 /\ (b.pc = "done" /\ b.error = "none") =>
                      Len(b.results) = 100]_vars

\* A batch of exactly 100 writes was executed in full.
C25_Witness ==
    /\ batch.pc = "done"
    /\ Len(batch.ops) = 100
    /\ batch.ops[100] = OpWriteOk
    /\ batch.error = "none"
    /\ Len(batch.results) = 100
    /\ batch.results[100].success

\* C26: from its first operation to its last a batch holds the
\* emulator-state lock, which it acquires once and releases once, and every
\* step between two of its operations is a step of the batch itself: no
\* other command and no emulation step changes memory, the command records
\* or the loaded game in between.
C26_BatchAtomic ==
    [][/\ batch.pc = "ops" =>
            /\ emuLock = "batch"
            /\ (\/ mem' # mem
                \/ lastWrite' # lastWrite
                \/ lastRead' # lastRead
                \/ GameInfo' # GameInfo)
               => (/\ Len(batch'.results) = Len(batch.results) + 1
                   /\ lastWrite' = lastWrite
                   /\ lastRead' = lastRead
                   /\ GameInfo' = GameInfo)
       /\ emuLock' # emuLock =>
            \/ batch.pc = "wait" /\ batch'.pc = "ops" /\ emuLock' = "batch"
            \/ /\ batch.pc = "ops"
               /\ batch'.pc = "done"
               /\ Len(batch.results) = Len(batch.ops)
               /\ emuLock' = "none"]_vars

\* A batch is between its second and third operation, holding the lock,
\* after another command and an emulation frame have run.
C26_Witness ==
    /\ batch.pc = "ops"
    /\ Len(batch.ops) = 3
    /\ Len(batch.results) = 2
    /\ emuLock = "batch"
    /\ lastWrite.outcome = "ok"
    /\ MemGet(batch.mem0, 1) \in EmuRamValues

\* ---------------------------------------------------------------------
\* HTTP handlers: the status each route answers for the error it catches.

\* The words of the messages the handlers and commands throw and of the
\* strings the handlers search for.
Words(m) ==
    CASE m = "Invalid address" -> <<"Invalid", "address">>
      [] m = "Address out of range" -> <<"Address", "out", "of", "range">>
      [] m = "Invalid hex format" -> <<"Invalid", "hex", "format">>
      [] m = "Address range exceeds" -> <<"Address", "range", "exceeds">>
      [] m = "Length must be" -> <<"Length", "must", "be">>
      [] m = "Length exceeds maximum" -> <<"Length", "exceeds", "maximum">>
      [] m = "Invalid button name" -> <<"Invalid", "button", "name">>
      [] m = "Invalid port number" -> <<"Invalid", "port", "number">>
      [] m = "Missing or invalid" -> <<"Missing", "or", "invalid">>
      [] m = "Address out of 16-bit range: 65536" ->
           <<"Address", "out", "of", "16-bit", "range", ":", "65536">>
      [] m = "Invalid address format: xx" ->
           <<"Invalid", "address", "format", ":", "xx">>
      [] m = "Address 0x8000 not in valid memory range" ->
           <<"Address", "0x8000", "not", "in", "valid", "memory", "range">>
      [] m = "Length must be greater than 0" ->
           <<"Length", "must", "be", "greater", "than", "0">>
      [] m = "Length exceeds maximum allowed (4096 bytes)" ->
           <<"Length", "exceeds", "maximum", "allowed", "(4096", "bytes)">>
      [] m = "Address range exceeds memory bounds" ->
           <<"Address", "range", "exceeds", "memory", "bounds">>
      [] m = "No game loaded" -> <<"No", "game", "loaded">>
      [] m = "No ROM loaded" -> <<"No", "ROM", "loaded">>
      [] m = "Command execution timeout" ->
           <<"Command", "execution", "timeout">>
      [] m = "Command queue is full" -> <<"Command", "queue", "is", "full">>
      [] m = "No data to write" -> <<"No", "data", "to", "write">>
      [] m = "Data size exceeds maximum allowed (4096 bytes)" ->
           <<"Data", "size", "exceeds", "maximum", "allowed", "(4096",
             "bytes)">>
      [] m = "Memory range is not safe to write" ->
           <<"Memory", "range", "is", "not", "safe", "to", "write">>
      [] m = "Missing or invalid 'data' field" ->
           <<"Missing", "or", "invalid", "'data'", "field">>
      [] m = "No operations provided" -> <<"No", "operations", "provided">>
      [] m = "Too many operations (maximum 100)" ->
           <<"Too", "many", "operations", "(maximum", "100)">>
      [] m = "Missing or invalid 'operations' array" ->
           <<"Missing", "or", "invalid", "'operations'", "array">>
      [] m = "Read operation missing 'length'" ->
           <<"Read", "operation", "missing", "'length'">>
      [] m = "Invalid button name: X" ->
           <<"Invalid", "button", "name", ":", "X">>
      [] m = "Missing or invalid 'buttons' array" ->
           <<"Missing", "or", "invalid", "'buttons'", "array">>
      [] m = "Button names must be strings" ->
           <<"Button", "names", "must", "be", "strings">>
      [] OTHER -> <<m>>

\* errorMsg.find(needle) != std::string::npos
Find(errorMsg, needle) ==
    LET e == Words(errorMsg)
        n == Words(needle)
    IN \E i \in 1..(Len(e) - Len(n) + 1) : SubSeq(e, i, i + Len(n) - 1) = n

\* GET /api/memory/{address}
MemoryReadStatus(errorMsg) ==
    IF \/ Find(errorMsg, "Invalid address")
       \/ Find(errorMsg, "Address out of range")
       \/ Find(errorMsg, "Invalid hex format")
    THEN 400
    ELSE IF errorMsg = "No game loaded" \/ errorMsg = "No ROM loaded" THEN 503
    ELSE IF errorMsg = "Command execution timeout" THEN 504
    ELSE 500

\* GET /api/memory/range/{start}/{length}
RangeReadStatus(errorMsg) ==
    IF \/ Find(errorMsg, "Invalid address")
       \/ Find(errorMsg, "Address range exceeds")
       \/ Find(errorMsg, "Length must be")
       \/ Find(errorMsg, "Length exceeds maximum")
    THEN 400
    ELSE IF errorMsg = "No game loaded" THEN 503
    ELSE IF errorMsg = "Command execution timeout" THEN 504
    ELSE 500

\* POST /api/memory/range/{start}
RangeWriteStatus(errorMsg) ==
    IF \/ Find(errorMsg, "Invalid address")
       \/ Find(errorMsg, "Address range exceeds")
       \/ Find(errorMsg, "Length must be")
       \/ Find(errorMsg, "Length exceeds maximum")
    THEN 400
    ELSE IF errorMsg = "No game loaded" THEN 503
    ELSE IF errorMsg = "Command execution timeout" THEN 504
    ELSE 500

\* POST /api/memory/batch
BatchStatus(errorMsg) ==
    IF \/ Find(errorMsg, "Invalid address")
       \/ Find(errorMsg, "Address range exceeds")
       \/ Find(errorMsg, "Length must be")
       \/ Find(errorMsg, "Length exceeds maximum")
    THEN 400
    ELSE IF errorMsg = "No game loaded" THEN 503
    ELSE IF errorMsg = "Command execution timeout" THEN 504
    ELSE 500

\* FceuxApiServer::handleInputError, the input routes.
handleInputError(errorMsg) ==
    IF \/ Find(errorMsg, "Invalid button name")
       \/ Find(errorMsg, "Invalid port number")
       \/ Find(errorMsg, "Missing or invalid")
    THEN 400
    ELSE IF errorMsg = "No game loaded" THEN 503
    ELSE IF errorMsg = "Command execution timeout" THEN 504
    ELSE 500

\* EmulationController::handlePause
handlePause(errorMsg) == IF errorMsg = "No ROM loaded" THEN 400 ELSE 500

\* What every submitted command can fail with besides its own errors.
SubmitErrors == {"Command queue is full", "Command execution timeout"}

\* parseAddress
AddressErrors ==
    {"Address out of 16-bit range: 65536", "Invalid address format: xx",
     "Address 0x8000 not in valid memory range"}

MemoryReadErrors == AddressErrors \cup SubmitErrors \cup {"No game loaded"}

RangeWriteErrors ==
    AddressErrors \cup SubmitErrors \cup
      {"Missing or invalid 'data' field", "No data to write",
       "Data size exceeds maximum allowed (4096 bytes)", "No game loaded",
       "Memory range is not safe to write"}

BatchErrors ==
    AddressErrors \cup SubmitErrors \cup
      {"Missing or invalid 'operations' array",
       "Read operation missing 'length'", "No operations provided",
       "Too many operations (maximum 100)", "No game loaded"}

InputErrors ==
    SubmitErrors \cup
      {"Invalid port number", "Invalid button name: X",
       "Missing or invalid 'buttons' array", "Button names must be strings",
       "No game loaded"}

PauseErrors == SubmitErrors \cup {"No ROM loaded"}

Reply(route, what, status) ==
    [route |-> route, what |-> what, status |-> status,
     requested |-> << >>, length |-> -1]

notHttp == << qvars, mtvars, ovvars, prvars, memvars, batvars, sysvars,
           cmdvars >>

HandleMemoryRead(what) ==
    /\ lastReply' = Reply("memory_read", what,
                          IF what = "" THEN 200 ELSE MemoryReadStatus(what))
    /\ UNCHANGED notHttp

HandleRangeWrite(what) ==
    /\ lastReply' = Reply("range_write", what,
                          IF what = "" THEN 200 ELSE RangeWriteStatus(what))
    /\ UNCHANGED notHttp

HandleBatch(what) ==
    /\ lastReply' = Reply("batch", what,
                          IF what = "" THEN 200 ELSE BatchStatus(what))
    /\ UNCHANGED notHttp

HandleInput(what) ==
    /\ lastReply' = Reply("input", what,
                          IF what = "" THEN 200 ELSE handleInputError(what))
    /\ UNCHANGED notHttp

HandlePause(what) ==
    /\ lastReply' = Reply("pause", what,
                          IF what = "" THEN 200 ELSE handlePause(what))
    /\ UNCHANGED notHttp

IntMax == 2147483647

Uint16Range == 65536

\* std::stoi on a string of decimal digits: the value, or -1 where stoi
\* throws std::out_of_range because the value does not fit an int.
RECURSIVE StoiFrom(_, _, _)
StoiFrom(digits, i, acc) ==
    IF i > Len(digits) THEN acc
    ELSE IF acc > (IntMax - digits[i]) \div 10 THEN -1
    ELSE StoiFrom(digits, i + 1, acc * 10 + digits[i])

Stoi(digits) == StoiFrom(digits, 1, 0)

\* uint16_t length = std::stoi(lengthStr): the value the command receives.
ParsedLength(value) == value % Uint16Range

\* The decimal lengths requested: 0, 1, 001, 4096, 4097, 65535, 65536,
\* 65537, 69632, 69633, 2147483647, 2147483648.
RequestedLengths ==
    {<<0>>, <<1>>, <<0, 0, 1>>, <<4, 0, 9, 6>>, <<4, 0, 9, 7>>,
     <<6, 5, 5, 3, 5>>, <<6, 5, 5, 3, 6>>, <<6, 5, 5, 3, 7>>,
     <<6, 9, 6, 3, 2>>, <<6, 9, 6, 3, 3>>,
     <<2, 1, 4, 7, 4, 8, 3, 6, 4, 7>>, <<2, 1, 4, 7, 4, 8, 3, 6, 4, 8>>}

RequestStarts == {0, 2047, 32767}

\* The range read route: the address is parsed, the decimal length is
\* converted, the command runs (or the queue is full, or the wait times
\* out), the error caught is mapped to a status.
HandleRangeRead(parseError, start, requested, submitError) ==
    /\ IF parseError # ""
       THEN lastReply' = [Reply("range_read", parseError,
                                RangeReadStatus(parseError))
                            EXCEPT !.requested = requested]
       ELSE IF Stoi(requested) = -1
       THEN lastReply' = [Reply("range_read", "stoi", 400)
                            EXCEPT !.requested = requested]
       ELSE LET length == ParsedLength(Stoi(requested))
                o == ReadOutcome(start, length, GameInfo)
                what == IF submitError # "" THEN submitError
                        ELSE IF o = "ok" THEN "" ELSE o
            IN lastReply' =
                 [Reply("range_read", what,
                        IF what = "" THEN 200 ELSE RangeReadStatus(what))
                    EXCEPT !.requested = requested, !.length = length]
    /\ UNCHANGED notHttp

NextHttp ==
    \/ \E what \in MemoryReadErrors \cup {""} : HandleMemoryRead(what)
    \/ \E parseError \in AddressErrors \cup {""}, start \in RequestStarts,
          requested \in RequestedLengths, submitError \in SubmitErrors \cup {""} :
         HandleRangeRead(parseError, start, requested, submitError)
    \/ \E what \in RangeWriteErrors \cup {""} : HandleRangeWrite(what)
    \/ \E what \in BatchErrors \cup {""} : HandleBatch(what)
    \/ \E what \in InputErrors \cup {""} : HandleInput(what)
    \/ \E what \in PauseErrors \cup {""} : HandlePause(what)
    \/ \E loaded \in BOOLEAN : EmuSetGame(loaded)

SpecHttp == Init /\ [][NextHttp]_vars

\* The status the mapping of the claim assigns to an outcome.
ExpectedStatus(what) ==
    IF what = "" THEN 200
    ELSE IF what \in {"No game loaded", "No ROM loaded"} THEN 503
    ELSE IF what = "Command execution timeout" THEN 504
    ELSE IF what = "Command queue is full" THEN 500
    ELSE 400

\* C27: every handler answers 200 on success, 400 for a validation failure,
\* 503 when no game or ROM is loaded, 504 on 'Command execution timeout'
\* and 500 when the queue is full.
C27_StatusMapping ==
    lastReply.route # "none" =>
       lastReply.status = ExpectedStatus(lastReply.what)

\* The decimal string without its leading zeros.
RECURSIVE Significant(_)
Significant(digits) ==
    IF digits = << >> \/ digits[1] # 0 THEN digits
    ELSE Significant(Tail(digits))

\* The number a string of at most five digits denotes.
RECURSIVE DecValue(_)
DecValue(digits) ==
    IF digits = << >> THEN 0
    ELSE 10 * DecValue(SubSeq(digits, 1, Len(digits) - 1))
           + digits[Len(digits)]

RequestedZero(digits) == Significant(digits) = << >>

RequestedAbove4096(digits) ==
    LET d == Significant(digits)
    IN Len(d) > 4 \/ (Len(d) = 4 /\ DecValue(d) > 4096)

\* C30: the range read route answers no request whose decimal length is 0
\* or above 4096 with success, and a request with a length above 4096 is
\* never executed as a read of another length.
C30_EndpointLengthLimit ==
    (lastReply.route = "range_read" /\ lastReply.what \notin AddressErrors) =>
       /\ (RequestedZero(lastReply.requested)
             \/ RequestedAbove4096(lastReply.requested))
             => lastReply.status # 200
       /\ (RequestedAbove4096(lastReply.requested) /\ lastReply.status = 200)
             => /\ Len(Significant(lastReply.requested)) <= 5
                /\ lastReply.length = DecValue(Significant(lastReply.requested))

\* ---------------------------------------------------------------------
\* PPU memory commands: validation at construction, region of an address.

PpuLast == 16383

PpuEnd == 16384

MAX_LENGTH == 4096

\* getPpuRegion
getPpuRegion(address) ==
    IF address < 8192 THEN "pattern_table"
    ELSE IF address < 12288 THEN "nametable"
    ELSE IF address < 16128 THEN "nametable_mirror"
    ELSE "palette"

\* PpuMemoryReadCommand::PpuMemoryReadCommand: if (addr > 0x3FFF) throw
PpuReadError_loose(addr) ==
    IF addr > PpuEnd
    THEN "PPU address out of range. Valid range: 0x0000-0x3FFF"
    ELSE "ok"

PpuReadError(addr) ==
    IF addr > PpuLast
    THEN "PPU address out of range. Valid range: 0x0000-0x3FFF"
    ELSE "ok"

\* PpuMemoryRangeCommand::PpuMemoryRangeCommand
PpuRangeError(start, len) ==
    IF start > PpuLast
    THEN "PPU start address out of range. Valid range: 0x0000-0x3FFF"
    ELSE IF len = 0 THEN "Length must be greater than 0"
    ELSE IF len > MAX_LENGTH THEN "Length exceeds maximum of 4096 bytes"
    ELSE IF start + len > PpuEnd
    THEN "Range exceeds PPU memory bounds (0x0000-0x3FFF)"
    ELSE "ok"

\* FFCEUX_PPURead is set while a game is loaded.
PpuReadAvailable == GameInfo

\* execute() of both PPU commands up to the read.
PpuExecuteOutcome ==
    IF ~GameInfo THEN "No game loaded"
    ELSE IF ~PpuReadAvailable THEN "PPU read function not available"
    ELSE "ok"

Cmd(name, stage, outcome) ==
    [NoCmd EXCEPT !.name = name, !.stage = stage, !.game = GameInfo,
                  !.outcome = outcome]

notCmd ==
    << qvars, mtvars, ovvars, prvars, memvars, batvars, httpvars, sysvars >>

\* A PPU read: constructed, and if accepted queued and executed.
PpuMemoryRead(addr) ==
    /\ LET e == PpuReadError(addr)
       IN lastCmd' =
            IF e # "ok"
            THEN [Cmd("PpuMemoryRead", "construct", e) EXCEPT !.address = addr]
            ELSE [Cmd("PpuMemoryRead", "execute", PpuExecuteOutcome)
                    EXCEPT !.address = addr,
                           !.region = IF PpuExecuteOutcome = "ok"
                                      THEN getPpuRegion(addr) ELSE ""]
    /\ UNCHANGED notCmd

\* A PPU range read; the result names the region of the start address.
PpuMemoryRange(start, len) ==
    /\ LET e == PpuRangeError(start, len)
       IN lastCmd' =
            IF e # "ok"
            THEN [Cmd("PpuMemoryRange", "construct", e)
                    EXCEPT !.address = start, !.length = len]
            ELSE [Cmd("PpuMemoryRange", "execute", PpuExecuteOutcome)
                    EXCEPT !.address = start, !.length = len,
                           !.region = IF PpuExecuteOutcome = "ok"
                                      THEN getPpuRegion(start) ELSE ""]
    /\ UNCHANGED notCmd

PpuAddresses ==
    {0, 4096, 8191, 8192, 12287, 12288, 16127, 16128, 16383, 16384, 65535}

PpuLengths == {0, 1, 2, 256, 4096, 4097, 65535}

NextPpu ==
    \/ \E addr \in PpuAddresses : PpuMemoryRead(addr)
    \/ \E start \in PpuAddresses, len \in PpuLengths :
         PpuMemoryRange(start, len)
    \/ \E loaded \in BOOLEAN : EmuSetGame(loaded)

SpecPpu == Init /\ [][NextPpu]_vars

\* The region the claim names for an address.
RegionOf(a) ==
    CASE a < 8192 -> "pattern_table"
      [] a >= 8192 /\ a < 12288 -> "nametable"
      [] a >= 12288 /\ a < 16128 -> "nametable_mirror"
      [] a >= 16128 -> "palette"

\* C29: a PPU read is accepted exactly for addresses 0x0000-0x3FFF and a
\* PPU range read exactly when 1 <= length <= 4096 and start + length <=
\* 0x4000; everything else is rejected at construction; an accepted and
\* executed command reports the one region its address lies in.
C29_PpuValidation ==
    LET c == lastCmd
    IN /\ c.name = "PpuMemoryRead" =>
            (c.stage = "execute" <=> c.address \in 0..16383)
       /\ c.name = "PpuMemoryRange" =>
            (c.stage = "execute" <=>
               (c.length \in 1..4096 /\ c.address + c.length <= 16384))
       /\ c.name \in {"PpuMemoryRead", "PpuMemoryRange"} =>
            /\ c.stage \in {"construct", "execute"}
            /\ c.stage = "construct" => (c.outcome # "ok" /\ c.region = "")
            /\ (c.stage = "execute" /\ c.outcome = "ok") =>
                 c.region = RegionOf(c.address)

\* A 4096-byte PPU range read ending exactly at 0x3FFF was executed and
\* classified.
C29_Witness ==
    /\ lastCmd.name = "PpuMemoryRange"
    /\ lastCmd.address = 12288
    /\ lastCmd.length = 4096
    /\ lastCmd.outcome = "ok"
    /\ lastCmd.region = "nametable_mirror"

\* ---------------------------------------------------------------------
\* The game-dependent commands, each executed as a whole while the
\* emulator-state lock is held.

notCmdMem ==
    << qvars, mtvars, ovvars, prvars, batvars, httpvars, sysvars, lastWrite,
       lastRead >>

notCmdInput == << qvars, mtvars, memvars, batvars, httpvars, sysvars >>

GameOutcome == IF ~GameInfo THEN "No game loaded" ELSE "ok"

\* MemoryReadCommand::execute
ExecMemoryRead(address) ==
    /\ lastCmd' = [Cmd("MemoryRead", "execute", GameOutcome)
                     EXCEPT !.address = address]
    /\ UNCHANGED notCmd

\* MemoryRangeReadCommand::execute
ExecRangeRead(start, length) ==
    /\ lastCmd' = [Cmd("MemoryRangeRead", "execute",
                       ReadOutcome(start, length, GameInfo))
                     EXCEPT !.address = start, !.length = length]
    /\ UNCHANGED notCmd

\* MemoryRangeWriteCommand::execute
ExecRangeWrite(start, length, battery) ==
    LET o == WriteOutcome(start, length, battery, GameInfo)
    IN /\ lastCmd' = [Cmd("MemoryRangeWrite", "execute", o)
                        EXCEPT !.address = start, !.length = length,
                               !.battery = battery]
       /\ mem' = WriteEffect(mem, start, length, o)
       /\ UNCHANGED notCmdMem

\* The loop of MemoryBatchCommand::execute over all operations.
RECURSIVE BatchEffect(_, _, _)
BatchEffect(m, ops, i) ==
    IF i > Len(ops) THEN m
    ELSE BatchEffect(OpEffect(m, ops[i]), ops, i + 1)

\* MemoryBatchCommand::execute
ExecBatch(ops) ==
    LET e == BatchSizeError(Len(ops))
        o == IF e # "none" THEN e ELSE GameOutcome
    IN /\ lastCmd' = [Cmd("MemoryBatch", "execute", o)
                        EXCEPT !.length = Len(ops)]
       /\ mem' = IF o = "ok" THEN BatchEffect(mem, ops, 1) ELSE mem
       /\ UNCHANGED notCmdMem

\* The constructors of the input commands: port = portNum - 1 as uint8_t.
InputPort(portNum) == (portNum - 1) % 256

InputCmd(name, portNum, buttons, outcome) ==
    [Cmd(name, IF InputPort(portNum) > 3 THEN "construct" ELSE "execute",
         outcome)
       EXCEPT !.portNum = portNum, !.port = InputPort(portNum),
              !.buttons = buttons]

\* InputPressCommand: constructor and execute
ExecInputPress(portNum, buttons, durationMs) ==
    LET port == InputPort(portNum)
        buttonMask == ButtonNamesToBitmask(buttons)
    IN IF port > 3
       THEN /\ lastCmd' = InputCmd("InputPress", portNum, buttons,
                                   "Invalid port number")
            /\ UNCHANGED notCmd
       ELSE /\ lastCmd' = InputCmd("InputPress", portNum, buttons, GameOutcome)
            /\ IF ~GameInfo
               THEN UNCHANGED << ovvars, prvars >>
               ELSE /\ Len(pendingReleases) < MaxPresses
                    /\ ApiSetJoypad(port, buttonMask, TRUE)
                    /\ pendingReleases' =
                         AddPendingRelease(pendingReleases, port, buttonMask,
                           currFrameCounter + DurationToFrames(durationMs))
                    /\ UNCHANGED << currFrameCounter, GameInfo, fpc, sport,
                                    presses >>
            /\ UNCHANGED notCmdInput

\* InputReleaseCommand: constructor and execute
ExecInputRelease(portNum, buttons) ==
    LET port == InputPort(portNum)
        buttonMask == ButtonNamesToBitmask(buttons)
    IN IF port > 3
       THEN /\ lastCmd' = InputCmd("InputRelease", portNum, buttons,
                                   "Invalid port number")
            /\ UNCHANGED notCmd
       ELSE /\ lastCmd' = InputCmd("InputRelease", portNum, buttons,
                                   GameOutcome)
            /\ IF ~GameInfo
               THEN UNCHANGED ovvars
               ELSE IF buttons = {}
               THEN /\ apiJoypadMask1' =
                         [apiJoypadMask1 EXCEPT ![port] = ForceOffNone]
                    /\ apiJoypadMask2' =
                         [apiJoypadMask2 EXCEPT ![port] = ForceOnNone]
                    /\ setCalls' = { c \in setCalls : c[1] # port }
                    /\ UNCHANGED lastSample
               ELSE /\ apiJoypadMask2' =
                         [apiJoypadMask2 EXCEPT
                            ![port] = BitAnd(@, BitNot8(buttonMask))]
                    /\ UNCHANGED << apiJoypadMask1, setCalls, lastSample >>
            /\ UNCHANGED prvars
            /\ UNCHANGED notCmdInput

AllButtons == 255

\* InputStateCommand: constructor and execute; pressed are the buttons the
\* new state maps to true.
ExecInputState(portNum, pressed) ==
    LET port == InputPort(portNum)
        buttonsToPress == ButtonNamesToBitmask(pressed)
        buttonsToClear == AllButtons - buttonsToPress
    IN IF port > 3
       THEN /\ lastCmd' = InputCmd("InputState", portNum, pressed,
                                   "Invalid port number")
            /\ UNCHANGED notCmd
       ELSE /\ lastCmd' = InputCmd("InputState", portNum, pressed, GameOutcome)
            /\ IF ~GameInfo
               THEN UNCHANGED ovvars
               ELSE /\ apiJoypadMask2' =
                         [apiJoypadMask2 EXCEPT
                            ![port] = IF buttonsToPress # 0
                                      THEN ForceOn(ForceOnNone, buttonsToPress)
                                      ELSE ForceOnNone]
                    /\ apiJoypadMask1' =
                         [apiJoypadMask1 EXCEPT
                            ![port] = IF buttonsToClear # 0
                                      THEN ForceOff(ForceOffNone,
                                                    buttonsToClear)
                                      ELSE ForceOffNone]
                    /\ setCalls' =
                         { c \in setCalls : c[1] # port }
                           \cup (IF buttonsToPress # 0
                                 THEN {<< port, buttonsToPress, TRUE >>}
                                 ELSE {})
                           \cup (IF buttonsToClear # 0
                                 THEN {<< port, buttonsToClear, FALSE >>}
                                 ELSE {})
                    /\ lastSample' = IF lastSample.which = port THEN NoSample
                                      ELSE lastSample
            /\ UNCHANGED prvars
            /\ UNCHANGED notCmdInput

CmdPortNums == {1, 5}

CmdButtonSets == {{}, {"A"}}

CmdWrites == {<<0, 1, FALSE>>, <<2048, 1, FALSE>>, <<24576, 1, TRUE>>}

CmdReads == {<<0, 1>>, <<0, 0>>, <<65535, 2>>}

CmdBatches == {<< >>, <<OpWriteOk>>, <<OpReadOk, OpWriteBad>>}

NextCmd ==
    \/ \E address \in {768} : ExecMemoryRead(address)
    \/ \E r \in CmdReads : ExecRangeRead(r[1], r[2])
    \/ \E w \in CmdWrites : ExecRangeWrite(w[1], w[2], w[3])
    \/ \E ops \in CmdBatches : ExecBatch(ops)
    \/ \E addr \in {0, 16384} : PpuMemoryRead(addr)
    \/ \E portNum \in CmdPortNums, buttons \in {{"A"}} :
         ExecInputPress(portNum, buttons, 0)
    \/ \E portNum \in CmdPortNums, buttons \in CmdButtonSets :
         ExecInputRelease(portNum, buttons)
    \/ \E portNum \in CmdPortNums, pressed \in CmdButtonSets :
         ExecInputState(portNum, pressed)
    \/ \E loaded \in BOOLEAN : EmuSetGame(loaded)

SpecCmd == Init /\ [][NextCmd]_vars

GameCommands ==
    {"MemoryRead", "MemoryRangeRead", "MemoryRangeWrite", "MemoryBatch",
     "PpuMemoryRead", "InputPress", "InputRelease", "InputState"}

\* A command that is well-formed on its own: its addresses, lengths and
\* port are inside what the interface permits.
CmdValid(c) ==
    CASE c.name = "MemoryRead" -> TRUE
      [] c.name = "MemoryRangeRead" ->
           c.length \in 1..4096 /\ c.address + c.length <= 65536
      [] c.name = "MemoryRangeWrite" ->
           /\ c.length \in 1..4096
           /\ \A a \in c.address..(c.address + c.length - 1) :
                PolicyAllows(a, c.battery)
      [] c.name = "MemoryBatch" -> c.length \in 1..100
      [] c.name = "PpuMemoryRead" -> c.address <= 16383
      [] c.name \in {"InputPress", "InputRelease", "InputState"} ->
           c.port \in 0..3
      [] OTHER -> FALSE

\* C28: a well-formed game-dependent command executed while no game is
\* loaded resolves with 'No game loaded' and changes neither emulator
\* memory nor an overlay mask nor the pending-release list; executed while
\* a game is loaded the same command succeeds.
C28_NoGamePrecondition ==
    [][(/\ lastCmd' # lastCmd
        /\ lastCmd'.name \in GameCommands
        /\ CmdValid(lastCmd')) =>
         IF ~GameInfo
         THEN /\ lastCmd'.outcome = "No game loaded"
              /\ mem' = mem
              /\ apiJoypadMask1' = apiJoypadMask1
              /\ apiJoypadMask2' = apiJoypadMask2
              /\ pendingReleases' = pendingReleases
         ELSE lastCmd'.outcome = "ok"]_vars

\* ============================================ clearing the overlay masks
\* FCEU_ApiClearJoypad / FCEU_ApiClearAllJoypads called between
\* FCEU_ApiSetJoypad calls; lastCmd records the call that was made (for a
\* clear of one port, length is the number of set calls it undoes).

OverlayCall(name, which) ==
    [Cmd(name, "execute", "ok") EXCEPT !.port = which]

\* Ports and masks the callers pass in this part.
ClearWhich == {-1, 0, 3, 4}

ClearMasks == {1, 128}

CallSetJoypad(which, buttonMask, force) ==
    /\ ApiSetJoypad(which, buttonMask, force)
    /\ lastCmd' = [OverlayCall("FCEU_ApiSetJoypad", which)
                     EXCEPT !.length = buttonMask]
    /\ UNCHANGED prvars
    /\ UNCHANGED notCmdInput

CallClearJoypad(which) ==
    /\ ApiClearJoypad(which)
    /\ lastCmd' = [OverlayCall("FCEU_ApiClearJoypad", which)
                     EXCEPT !.length =
                       Cardinality({ c \in setCalls : c[1] = which })]
    /\ UNCHANGED prvars
    /\ UNCHANGED notCmdInput

CallClearAllJoypads ==
    /\ ApiClearAllJoypads
    /\ lastCmd' = OverlayCall("FCEU_ApiClearAllJoypads", 0)
    /\ UNCHANGED prvars
    /\ UNCHANGED notCmdInput

NextClear ==
    \/ \E which \in ClearWhich, buttonMask \in ClearMasks, force \in BOOLEAN :
         /\ Cardinality(setCalls) < MaxSets
         /\ CallSetJoypad(which, buttonMask, force)
    \/ \E which \in ClearWhich : CallClearJoypad(which)
    \/ CallClearAllJoypads

SpecClear == Init /\ [][NextClear]_vars

PassThrough(p) == apiJoypadMask1[p] = 255 /\ apiJoypadMask2[p] = 0

\* C31: FCEU_ApiClearJoypad(port) for a port in 0..3 leaves that port's
\* masks at forceOff = 0xFF and forceOn = 0x00 as soon as it returns and
\* leaves the masks of every other port as they were; for a port outside
\* 0..3 no mask changes; FCEU_ApiClearAllJoypads leaves all four ports at
\* pass-through.
C31_ClearEffect ==
    [][/\ (lastCmd' # lastCmd /\ lastCmd'.name = "FCEU_ApiClearJoypad") =>
            IF lastCmd'.port \in 0..3
            THEN /\ apiJoypadMask1'[lastCmd'.port] = 255
                 /\ apiJoypadMask2'[lastCmd'.port] = 0
                 /\ \A q \in Ports \ {lastCmd'.port} :
                      /\ apiJoypadMask1'[q] = apiJoypadMask1[q]
                      /\ apiJoypadMask2'[q] = apiJoypadMask2[q]
            ELSE /\ apiJoypadMask1' = apiJoypadMask1
                 /\ apiJoypadMask2' = apiJoypadMask2
       /\ (lastCmd' # lastCmd /\ lastCmd'.name = "FCEU_ApiClearAllJoypads") =>
            \A p \in Ports :
               apiJoypadMask1'[p] = 255 /\ apiJoypadMask2'[p] = 0]_vars

\* FCEU_ApiClearJoypad has just returned for port 0, which had a mask set,
\* while port 3 still holds the force-on mask set before the call.
C31_Witness ==
    /\ lastCmd.name = "FCEU_ApiClearJoypad"
    /\ lastCmd.port = 0
    /\ lastCmd.length = 1
    /\ PassThrough(0)
    /\ apiJoypadMask2[3] = 128

\* ================================================ port numbers of commands
\* The three input commands constructed with port numbers inside and
\* outside 1..4, among them numbers that differ from a valid one by a
\* multiple of 256.
PortNumInputs == {-255, -252, -1, 0, 1, 4, 5, 255, 256, 257, 260, 261}

NextPort ==
    \/ \E portNum \in PortNumInputs : ExecInputPress(portNum, {"A"}, 0)
    \/ \E portNum \in PortNumInputs : ExecInputRelease(portNum, {"A"})
    \/ \E portNum \in PortNumInputs : ExecInputState(portNum, {"A"})
    \/ \E loaded \in BOOLEAN : EmuSetGame(loaded)

SpecPort == Init /\ [][NextPort]_vars

InputCommandNames == {"InputPress", "InputRelease", "InputState"}

\* C36: the constructor of an input command accepts the port number
\* exactly when it is in 1..4, stores it zero-based (0..3), and throws
\* 'Invalid port number' for every other integer.
C36_PortValidation ==
    lastCmd.name \in InputCommandNames =>
        IF lastCmd.portNum \in 1..4
        THEN /\ lastCmd.stage = "execute"
             /\ lastCmd.port = lastCmd.portNum - 1
        ELSE /\ lastCmd.stage = "construct"
             /\ lastCmd.outcome = "Invalid port number"

\* ======================================================= setting the state
\* InputStateCommand and InputPressCommand executed by the drain at the
\* start of a frame, followed by the scheduler tick and the samples of the
\* frame.
StatePortNums == {1, 2}

StatePressed == {{}, {"A"}, {"A", "Right"}}

StateRaw == {0, 2, 255}

DrainInputState(portNum, pressed) ==
    /\ fpc = "drain"
    /\ ExecInputState(portNum, pressed)

DrainInputPress(portNum, buttons, durationMs) ==
    /\ fpc = "drain"
    /\ ExecInputPress(portNum, buttons, durationMs)

NextState ==
    \/ \E portNum \in StatePortNums, pressed \in StatePressed :
         DrainInputState(portNum, pressed)
    \/ \E portNum \in StatePortNums : DrainInputPress(portNum, {"A"}, 0)
    \/ ProcessPendingReleases
    \/ \E joyl \in StateRaw : EmuSample(joyl)

SpecState == Init /\ [][NextState]_vars

\* The FCEU_ApiSetJoypad calls InputStateCommand::execute makes for a port.
StateCalls(p, pressMask) ==
    (IF pressMask # 0 THEN {<< p, pressMask, TRUE >>} ELSE {})
      \cup (IF pressMask # 255 THEN {<< p, 255 - pressMask, FALSE >>} ELSE {})

CallsOn(p) == { c \in setCalls : c[1] = p }

\* C37: the first sample of a port after an InputStateCommand has executed
\* for it with a game loaded (no other command on the port in between)
\* returns exactly the buttons requested as pressed, whatever the raw state
\* and whatever was forced before; a sample of a port with no command since
\* its previous sample returns the raw state.
C37_SetStateExact ==
    [][\A p \in Ports : ReadStep(p) =>
         /\ (/\ lastCmd.name = "InputState"
             /\ lastCmd.port = p
             /\ lastCmd.outcome = "ok"
             /\ CallsOn(p) = StateCalls(p, ButtonNamesToBitmask(lastCmd.buttons)))
              => lastSample'.ret = ButtonNamesToBitmask(lastCmd.buttons)
         /\ CallsOn(p) = {} => lastSample'.ret = lastSample'.raw]_vars


\* ====================================================== locking discipline
\* Who takes which lock, and who writes the overlay masks and the
\* pending-release list.  Three threads: the emulation thread (tick loop:
\* lock, drain, scheduler tick, sample, unlock), the GUI thread (constructs
\* the server, then takes the emulator-state lock for menu actions) and a
\* request-handling thread (pushes commands).  The values written are those
\* of SpecOverlay and SpecPress; here only the accesses are followed.

LockThreads == {"emu", "gui", "handler"}

\* Commands a handler queues in this part.
MaxPending == 1

LockCmdNames ==
    {"InputPress", "InputRelease", "PpuMemoryRange", "MemoryRead"}

\* FCEU_WRAPPER_LOCK / FCEU_WRAPPER_UNLOCK: a recursive lock with a hold
\* count; an unlock by a thread that does not hold it is recorded.
Acquirable(l, t) == l.holder = "none" \/ l.holder = t

Acquire(l, t) == [l EXCEPT !.holder = t, !.count = @ + 1]

Release(l, t) ==
    IF l.holder = t /\ l.count > 0
    THEN [l EXCEPT !.count = @ - 1,
                   !.holder = IF l.count = 1 THEN "none" ELSE t]
    ELSE [l EXCEPT !.unmatched = TRUE]

HeldCount(t) == IF locks.holder = t THEN locks.count ELSE 0

\* FCEU::autoScopedLock: the destructor releases the mutex when the call
\* returns.
ScopedUnlock_leak(holder) == holder

ScopedUnlock(holder) == "none"

\* What can happen inside execute() for a command, given GameInfo.
PathConds(name, game) ==
    IF ~game THEN {"noGame"}
    ELSE CASE name \in {"InputPress", "InputRelease"} ->
                {"ok", "badButton", "storeFails"}
           [] name \in {"PpuMemoryRead", "PpuMemoryRange"} ->
                {"ok", "noPpuReader", "storeFails"}
           [] OTHER -> {"ok", "storeFails"}

\* InputPressCommand::execute
InputPressPath(cond) ==
    CASE cond = "noGame" -> << "LOCK", "UNLOCK", "throw" >>
      [] cond = "badButton" -> << "LOCK", "throw", "UNLOCK", "throw" >>
      [] cond = "ok" ->
           << "LOCK", "masks", "releaseLock", "releases", "UNLOCK",
              "set_value" >>
      [] OTHER ->
           << "LOCK", "masks", "releaseLock", "releases", "UNLOCK", "throw" >>

\* InputReleaseCommand::execute
InputReleasePath(cond) ==
    CASE cond = "noGame" -> << "LOCK", "UNLOCK", "throw" >>
      [] cond = "badButton" -> << "LOCK", "throw", "UNLOCK", "throw" >>
      [] cond = "ok" -> << "LOCK", "masks", "UNLOCK", "set_value" >>
      [] OTHER -> << "LOCK", "masks", "UNLOCK", "throw" >>

\* InputStateCommand::execute
InputStatePath(cond) ==
    CASE cond = "noGame" -> << "LOCK", "UNLOCK", "throw" >>
      [] cond = "ok" -> << "LOCK", "masks", "UNLOCK", "set_value" >>
      [] OTHER -> << "LOCK", "masks", "UNLOCK", "throw" >>

\* PpuMemoryReadCommand::execute and PpuMemoryRangeCommand::execute: every
\* throw inside the try block reaches catch (...), which unlocks and
\* rethrows.
PpuPath_noCatchUnlock(cond) ==
    CASE cond \in {"noGame", "noPpuReader"} -> << "LOCK", "UNLOCK", "throw" >>
      [] cond = "ok" -> << "LOCK", "UNLOCK", "set_value" >>
      [] OTHER -> << "LOCK", "UNLOCK", "throw" >>

PpuPath(cond) ==
    CASE cond \in {"noGame", "noPpuReader"} ->
           << "LOCK", "UNLOCK", "throw", "UNLOCK", "throw" >>
      [] cond = "ok" -> << "LOCK", "UNLOCK", "set_value" >>
      [] OTHER -> << "LOCK", "UNLOCK", "throw", "UNLOCK", "throw" >>

\* MemoryReadCommand::execute
MemoryReadPath(cond) ==
    CASE cond = "noGame" -> << "LOCK", "UNLOCK", "throw" >>
      [] cond = "ok" -> << "LOCK", "UNLOCK", "set_value" >>
      [] OTHER -> << "LOCK", "UNLOCK", "throw" >>

ExecutePath(name, cond) ==
    CASE name = "InputPress" -> InputPressPath(cond)
      [] name = "InputRelease" -> InputReleasePath(cond)
      [] name = "InputState" -> InputStatePath(cond)
      [] name \in {"PpuMemoryRead", "PpuMemoryRange"} -> PpuPath(cond)
      [] OTHER -> MemoryReadPath(cond)

Access(t, target) ==
    [thread |-> t, target |-> target, held |-> locks.holder = t]

notLock ==
    << qvars, mtvars, ovvars, memvars, batvars, httpvars, cmdvars, srvvars >>

\* FceuxApiServer::FceuxApiServer, run by the GUI thread: FCEU_ApiInputInit
\* stores into all eight masks.
GuiConstruct ==
    /\ lockpc.gui = "construct"
    /\ lastAccess' = Access("gui", "masks")
    /\ lockpc' = [lockpc EXCEPT !.gui = "idle"]
    /\ UNCHANGED << locks, curCmd, lockQueue >>
    /\ UNCHANGED prvars
    /\ UNCHANGED notLock

\* A menu action of the GUI thread: FCEU_WRAPPER_LOCK(); ...;
\* FCEU_WRAPPER_UNLOCK();  a game is loaded or closed under the lock.
GuiLockCall ==
    /\ lockpc.gui = "idle"
    /\ lockpc' = [lockpc EXCEPT !.gui = "lock_wait"]
    /\ UNCHANGED << locks, curCmd, lockQueue, lastAccess >>
    /\ UNCHANGED prvars
    /\ UNCHANGED notLock

GuiLock ==
    /\ lockpc.gui = "lock_wait"
    /\ Acquirable(locks, "gui")
    /\ locks' = Acquire(locks, "gui")
    /\ lockpc' = [lockpc EXCEPT !.gui = "locked"]
    /\ UNCHANGED << curCmd, lockQueue, lastAccess >>
    /\ UNCHANGED prvars
    /\ UNCHANGED notLock

GuiUnlock(loaded) ==
    /\ lockpc.gui = "locked"
    /\ GameInfo' = loaded
    /\ locks' = Release(locks, "gui")
    /\ lockpc' = [lockpc EXCEPT !.gui = "idle"]
    /\ UNCHANGED << curCmd, lockQueue, lastAccess >>
    /\ UNCHANGED << pendingReleases, currFrameCounter, fpc, sport, presses >>
    /\ UNCHANGED notLock

\* CommandQueue::clear, called by the GUI thread: the loop cancels and pops
\* every command while the queue lock is held.
ClearCall ==
    /\ lockpc.gui = "idle"
    /\ lockpc' = [lockpc EXCEPT !.gui = "clear_wait"]
    /\ UNCHANGED << locks, curCmd, lockQueue, lastAccess >>
    /\ UNCHANGED prvars
    /\ UNCHANGED notLock

ClearLock ==
    /\ lockpc.gui = "clear_wait"
    /\ locks.queue = "none"
    /\ locks' = [locks EXCEPT !.queue = "gui"]
    /\ lockpc' = [lockpc EXCEPT !.gui = "clear_locked"]
    /\ UNCHANGED << curCmd, lockQueue, lastAccess >>
    /\ UNCHANGED prvars
    /\ UNCHANGED notLock

ClearLocked ==
    /\ lockpc.gui = "clear_locked"
    /\ lockQueue' = << >>
    /\ locks' = [locks EXCEPT !.queue = ScopedUnlock(@)]
    /\ lockpc' = [lockpc EXCEPT !.gui = "idle"]
    /\ UNCHANGED << curCmd, lastAccess >>
    /\ UNCHANGED prvars
    /\ UNCHANGED notLock

\* CommandQueue::push on a handler thread (the server exists).
PushCall ==
    /\ lockpc.handler = "idle"
    /\ lockpc.gui # "construct"
    /\ lockpc' = [lockpc EXCEPT !.handler = "push_wait"]
    /\ UNCHANGED << locks, curCmd, lockQueue, lastAccess >>
    /\ UNCHANGED prvars
    /\ UNCHANGED notLock

PushLock ==
    /\ lockpc.handler = "push_wait"
    /\ locks.queue = "none"
    /\ locks' = [locks EXCEPT !.queue = "handler"]
    /\ lockpc' = [lockpc EXCEPT !.handler = "push_locked"]
    /\ UNCHANGED << curCmd, lockQueue, lastAccess >>
    /\ UNCHANGED prvars
    /\ UNCHANGED notLock

PushLocked(name) ==
    /\ lockpc.handler = "push_locked"
    /\ lockQueue' = IF Len(lockQueue) >= MaxPending THEN lockQueue
                    ELSE Append(lockQueue, name)
    /\ locks' = [locks EXCEPT !.queue = ScopedUnlock(@)]
    /\ lockpc' = [lockpc EXCEPT !.handler = "idle"]
    /\ UNCHANGED << curCmd, lastAccess >>
    /\ UNCHANGED prvars
    /\ UNCHANGED notLock

\* The tick loop of the emulation thread takes the emulator-state lock.
TickLock ==
    /\ lockpc.emu = "idle"
    /\ Acquirable(locks, "emu")
    /\ locks' = Acquire(locks, "emu")
    /\ lockpc' = [lockpc EXCEPT !.emu = "drain"]
    /\ UNCHANGED << curCmd, lockQueue, lastAccess >>
    /\ UNCHANGED prvars
    /\ UNCHANGED notLock

\* CommandQueue::tryPop called by the drain.
PopLock ==
    /\ lockpc.emu = "drain"
    /\ locks.queue = "none"
    /\ locks' = [locks EXCEPT !.queue = "emu"]
    /\ lockpc' = [lockpc EXCEPT !.emu = "pop_locked"]
    /\ UNCHANGED << curCmd, lockQueue, lastAccess >>
    /\ UNCHANGED prvars
    /\ UNCHANGED notLock

PopLocked ==
    /\ lockpc.emu = "pop_locked"
    /\ locks' = [locks EXCEPT !.queue = ScopedUnlock(@)]
    /\ IF lockQueue = << >>
       THEN /\ lockpc' = [lockpc EXCEPT !.emu = "tick"]
            /\ UNCHANGED << curCmd, lockQueue >>
       ELSE /\ lockpc' = [lockpc EXCEPT !.emu = "exec"]
            /\ lockQueue' = Tail(lockQueue)
            /\ \E cond \in PathConds(Head(lockQueue), GameInfo) :
                 curCmd' = [name |-> Head(lockQueue),
                            path |-> ExecutePath(Head(lockQueue), cond),
                            pos |-> 1,
                            entry |-> HeldCount("emu")]
    /\ UNCHANGED lastAccess
    /\ UNCHANGED prvars
    /\ UNCHANGED notLock

\* One step of execute() along its path.
ExecStep ==
    /\ lockpc.emu = "exec"
    /\ curCmd.pos <= Len(curCmd.path)
    /\ LET e == curCmd.path[curCmd.pos]
       IN CASE e = "LOCK" ->
                 /\ Acquirable(locks, "emu")
                 /\ locks' = Acquire(locks, "emu")
                 /\ UNCHANGED lastAccess
            [] e = "UNLOCK" ->
                 /\ locks' = Release(locks, "emu")
                 /\ UNCHANGED lastAccess
            [] e = "masks" ->
                 /\ lastAccess' = Access("emu", "masks")
                 /\ UNCHANGED locks
            [] e = "releaseLock" ->
                 /\ locks.release = "none"
                 /\ locks' = [locks EXCEPT !.release = "emu"]
                 /\ UNCHANGED lastAccess
            [] e = "releases" ->
                 /\ lastAccess' = Access("emu", "pendingReleases")
                 /\ locks' = [locks EXCEPT !.release = "none"]
            [] OTHER -> UNCHANGED << locks, lastAccess >>
    /\ curCmd' = [curCmd EXCEPT !.pos = @ + 1]
    /\ UNCHANGED << lockpc, lockQueue >>
    /\ UNCHANGED prvars
    /\ UNCHANGED notLock

\* execute() has returned or thrown; the drain goes on to the next tryPop.
ExecReturn ==
    /\ lockpc.emu = "exec"
    /\ curCmd.pos > Len(curCmd.path)
    /\ curCmd' = NoCur
    /\ lockpc' = [lockpc EXCEPT !.emu = "drain"]
    /\ UNCHANGED << locks, lockQueue, lastAccess >>
    /\ UNCHANGED prvars
    /\ UNCHANGED notLock

\* InputReleaseManager::processPendingReleases, called by the tick loop.
TickReleaseLock ==
    /\ lockpc.emu = "tick"
    /\ locks.release = "none"
    /\ locks' = [locks EXCEPT !.release = "emu"]
    /\ lockpc' = [lockpc EXCEPT !.emu = "tick_locked"]
    /\ UNCHANGED << curCmd, lockQueue, lastAccess >>
    /\ UNCHANGED prvars
    /\ UNCHANGED notLock

TickProcess ==
    /\ lockpc.emu = "tick_locked"
    /\ lastAccess' = Access("emu", "pendingReleases")
    /\ locks' = [locks EXCEPT !.release = "none"]
    /\ lockpc' = [lockpc EXCEPT !.emu = "sample"]
    /\ UNCHANGED << curCmd, lockQueue >>
    /\ UNCHANGED prvars
    /\ UNCHANGED notLock

\* FCEU_ApiReadJoypad, called by the emulation loop for a port.
TickSample ==
    /\ lockpc.emu = "sample"
    /\ lastAccess' = Access("emu", "masks")
    /\ lockpc' = [lockpc EXCEPT !.emu = "unlock"]
    /\ UNCHANGED << locks, curCmd, lockQueue >>
    /\ UNCHANGED prvars
    /\ UNCHANGED notLock

TickUnlock ==
    /\ lockpc.emu = "unlock"
    /\ locks' = Release(locks, "emu")
    /\ lockpc' = [lockpc EXCEPT !.emu = "idle"]
    /\ UNCHANGED << curCmd, lockQueue, lastAccess >>
    /\ UNCHANGED prvars
    /\ UNCHANGED notLock

NextLock ==
    \/ GuiConstruct
    \/ GuiLockCall
    \/ GuiLock
    \/ \E loaded \in BOOLEAN : GuiUnlock(loaded)
    \/ ClearCall
    \/ ClearLock
    \/ ClearLocked
    \/ PushCall
    \/ PushLock
    \/ \E name \in LockCmdNames : PushLocked(name)
    \/ TickLock
    \/ PopLock
    \/ PopLocked
    \/ ExecStep
    \/ ExecReturn
    \/ TickReleaseLock
    \/ TickProcess
    \/ TickSample
    \/ TickUnlock

SpecLock == Init /\ [][NextLock]_vars

\* C32: every write to the overlay masks and every modification of the
\* pending-release list is made by a thread that holds the emulator-state
\* lock at that moment.
C32_MutationsUnderLock ==
    lastAccess.thread # "none" => lastAccess.held

\* The lock a thread is about to take at its position ("none": no lock).
WaitsFor(t) ==
    CASE t = "emu" /\ lockpc.emu = "idle" -> "emulator"
      [] t = "emu" /\ lockpc.emu = "drain" -> "queue"
      [] t = "emu" /\ lockpc.emu = "tick" -> "release"
      [] t = "emu" /\ lockpc.emu = "exec"
           /\ curCmd.pos <= Len(curCmd.path) ->
           (CASE curCmd.path[curCmd.pos] = "LOCK" -> "emulator"
              [] curCmd.path[curCmd.pos] = "releaseLock" -> "release"
              [] OTHER -> "none")
      [] t = "gui" /\ lockpc.gui = "lock_wait" -> "emulator"
      [] t = "gui" /\ lockpc.gui = "clear_wait" -> "queue"
      [] t = "handler" /\ lockpc.handler = "push_wait" -> "queue"
      [] OTHER -> "none"

LockHolder(name) ==
    CASE name = "emulator" -> locks.holder
      [] name = "queue" -> locks.queue
      [] name = "release" -> locks.release
      [] OTHER -> "none"

\* t cannot take the lock it wants: another thread holds it, or t itself
\* holds a lock that is not recursive.
Blocked(t) ==
    /\ WaitsFor(t) # "none"
    /\ LockHolder(WaitsFor(t)) # "none"
    /\ (WaitsFor(t) = "emulator" => LockHolder(WaitsFor(t)) # t)

InQueueCall(t) ==
    lockpc[t] \in {"push_locked", "pop_locked", "clear_locked"}

\* C33: the queue lock is held only inside one queue call; a thread that
\* holds it is not about to take (or waiting for) the emulator-state lock
\* or any other lock; and no set of threads waits in a cycle on the queue
\* lock, the emulator-state lock and the release-list mutex.
C33_LockIndependence ==
    /\ \A t \in LockThreads :
         locks.queue = t => (InQueueCall(t) /\ WaitsFor(t) = "none")
    /\ \A S \in (SUBSET LockThreads) \ {{}} :
         ~(\A t \in S : Blocked(t) /\ LockHolder(WaitsFor(t)) \in S)

\* The drain holds the queue lock inside tryPop under the emulator-state
\* lock while the handler waits for the queue lock and the GUI thread
\* waits for the emulator-state lock.
C33_Witness ==
    /\ locks.holder = "emu"
    /\ locks.queue = "emu"
    /\ lockpc.handler = "push_wait"
    /\ lockpc.gui = "lock_wait"
    /\ lockQueue # << >>

\* C34: on every path through execute() the emulator-state lock is
\* released exactly as often as execute() took it: the hold count never
\* falls below its value at entry, equals it when execute() returns or
\* throws, and no unlock is made by a thread that does not hold the lock.
C34_LockBalance ==
    lockpc.emu = "exec" =>
        /\ HeldCount("emu") >= curCmd.entry
        /\ curCmd.pos > Len(curCmd.path) => HeldCount("emu") = curCmd.entry
        /\ ~locks.unmatched

\* ------------------------------------------------------------------
\* Progress of the drain.  The steps of the emulation thread are taken
\* whenever they can be taken again and again (the thread is scheduled and
\* every lock it waits for is released in the end); a thread that holds a
\* lock runs to the end of its critical section; otherwise the handler and
\* the GUI thread run as they please.
EmuNext ==
    \/ TickLock
    \/ PopLock
    \/ PopLocked
    \/ ExecStep
    \/ ExecReturn
    \/ TickReleaseLock
    \/ TickProcess
    \/ TickSample
    \/ TickUnlock

SpecDrain ==
    /\ Init /\ [][NextLock]_vars
    /\ SF_vars(EmuNext)
    /\ WF_vars(ClearLocked)
    /\ WF_vars(\E name \in LockCmdNames : PushLocked(name))
    /\ WF_vars(\E loaded \in BOOLEAN : GuiUnlock(loaded))

\* C35: a drain step that has begun ends: the emulation thread reaches the
\* scheduler tick that follows the drain after finitely many commands, also
\* while a handler thread keeps pushing.
C35_DrainTerminates ==
    (lockpc.emu = "drain") ~> (lockpc.emu = "tick")


\* ================================================= retiring pending releases
\* Press and release commands executed by the drain at the start of a frame,
\* the scheduler tick, the samples of the frame, and LoadStateCommand, which
\* replaces the emulator's frame counter by the one of the loaded state.
RetirePortNums == {1}

RetireButtons == {{}, {"A"}}

RetireDurations == {0, 40}

\* Frame counters stored in the save states that are loaded.
LoadFrames == {1}

\* A press is executed only when its release frame lies within the frames
\* the emulation loop runs.
RetirePress(portNum, durationMs) ==
    /\ currFrameCounter + DurationToFrames(durationMs) <= MaxFrame
    /\ DrainInputPress(portNum, {"A"}, durationMs)

\* InputReleaseCommand::execute: the named buttons, or with no button the
\* clear of the port's overlay; the list of pending releases is not touched.
DrainInputRelease(portNum, buttons) ==
    /\ fpc = "drain"
    /\ ExecInputRelease(portNum, buttons)

\* FCEUI_LoadState: the emulator restores the state it saved, the frame
\* counter included.
FCEUI_LoadState(frame) == currFrameCounter' = frame

\* LoadStateCommand::execute with a slot: FCEUI_SelectState, loadFromFile.
\* The command records the number of releases pending when it ran.
LoadState(frame) ==
    /\ fpc = "drain"
    /\ lastCmd' = [Cmd("LoadState", "execute", GameOutcome)
                     EXCEPT !.length = Len(pendingReleases)]
    /\ IF ~GameInfo
       THEN UNCHANGED prvars
       ELSE /\ FCEUI_LoadState(frame)
            /\ UNCHANGED << pendingReleases, GameInfo, fpc, sport, presses >>
    /\ UNCHANGED ovvars
    /\ UNCHANGED notCmdInput

NextRetire ==
    \/ \E portNum \in RetirePortNums, durationMs \in RetireDurations :
         RetirePress(portNum, durationMs)
    \/ \E portNum \in RetirePortNums, buttons \in RetireButtons :
         DrainInputRelease(portNum, buttons)
    \/ \E frame \in LoadFrames : LoadState(frame)
    \/ ProcessPendingReleases
    \/ EmuSample(0)

\* The per-frame tick keeps being called and the frames keep running.
SpecRetire ==
    /\ Init
    /\ [][NextRetire]_vars
    /\ WF_vars(ProcessPendingReleases)
    /\ WF_vars(EmuSample(0))

\* An entry with this release frame is in the list.
PendingAt(releaseFrame) ==
    \E i \in 1..Len(pendingReleases) :
       pendingReleases[i].releaseFrame = releaseFrame

\* The frame counter keeps advancing: it ends at the last frame of the run
\* and is not taken back again.
FrameAdvances == <>[](currFrameCounter = MaxFrame)

\* C38: provided the tick keeps being called and the frame counter keeps
\* advancing, every entry added to the list of pending releases is removed
\* by a later processPendingReleases call, whatever release commands, clears
\* of the overlay and loads of a save state happen in between.
C38_ReleasesRetired ==
    FrameAdvances =>
      \A releaseFrame \in 1..MaxFrame :
         PendingAt(releaseFrame) ~> ~PendingAt(releaseFrame)

\* A save state was loaded while a release was pending, which took the frame
\* counter back; the entry has been retired since.
C38_Witness ==
    /\ lastCmd.name = "LoadState"
    /\ lastCmd.length >= 1
    /\ pendingReleases = << >>
    /\ currFrameCounter > 2


\* ==================================================== the server lifecycle
\* RestApiServer::start, stop, setConfig and the destructor, called by the
\* GUI thread, and serverThreadFunc, run by m_serverThread. start() waits
\* for the thread to report the bind, so each call is one step.
MaxStarts == 3

\* Ports passed to start() and found in the loaded configuration.
ServerPorts == {8080, 8081}

\* How a start goes: the bind succeeds, the port is in use, the bind fails
\* otherwise, the thread does not report in time (and ends with or without a
\* late bind error), std::thread cannot be created.
StartOutcomes == {"ok", "inuse", "bindfail", "timeout", "timeoutLate",
                  "threadFailed"}

\* A call begins: nothing emitted, nothing returned yet.
Call(name, port, s) ==
    [s EXCEPT !.op = name, !.arg = port, !.emitted = {}, !.ret = FALSE]

Emit(s, signal) == [s EXCEPT !.emitted = @ \cup {signal}]

\* m_serverThread.joinable()
Joinable(s) == s.thread # "none"

\* if (!m_running.load()) m_config = config;
setConfig(s, port) == IF ~s.running THEN [s EXCEPT !.port = port] ELSE s

\* serverThreadFunc up to the promise: bind_to_port, and on failure
\* m_running = false, the error, the signal, set_value(false), return.
serverThreadFunc(s, bound) ==
    IF bound = "ok"
    THEN [s EXCEPT !.thread = "listening"]
    ELSE Emit([s EXCEPT !.thread = "finished", !.running = FALSE,
                        !.lastError = IF bound = "inuse" THEN "PortInUse"
                                      ELSE "BindFailed"],
              "errorOccurred")

\* if (m_running.load())
AlreadyRunning_never(s) == FALSE

AlreadyRunning(s) == s.running

\* RestApiServer::start
start(s, port, outcome) ==
    IF AlreadyRunning(s)
    THEN Emit([s EXCEPT !.lastError = "AlreadyRunning"], "errorOccurred")
    ELSE LET created == [s EXCEPT !.port = IF port # DefaultPort
                                          THEN port ELSE @,
                                  !.lastError = "None",
                                  !.hasServer = TRUE,
                                  !.instance = @ + 1]
             running == [created EXCEPT !.running = TRUE]
         IN IF outcome = "threadFailed"
            THEN Emit([created EXCEPT !.lastError = "Unknown",
                                      !.running = FALSE], "errorOccurred")
            ELSE IF Joinable(s)
            \* m_serverThread = std::thread(...) on a joinable thread
            THEN [running EXCEPT !.life = "terminated"]
            ELSE IF outcome = "ok"
            THEN Emit([serverThreadFunc(running, "ok") EXCEPT !.ret = TRUE],
                      "serverStarted")
            ELSE IF outcome \in {"inuse", "bindfail"}
            THEN serverThreadFunc(running, outcome)
            ELSE Emit([running EXCEPT
                         !.running = FALSE,
                         !.lastError = IF outcome = "timeoutLate"
                                       THEN "BindFailed"
                                       ELSE "ThreadStartFailed",
                         !.thread = "none"],
                      "errorOccurred")

\* RestApiServer::stop
stop(s) ==
    IF ~s.running
    THEN s
    ELSE Emit([s EXCEPT !.running = FALSE, !.thread = "none",
                        !.hasServer = FALSE], "serverStopped")

Alive == server.life = "alive"

\* A start that creates a server is counted.
StartBound(s) == s.running \/ s.instance < MaxStarts

SetConfig(port) ==
    /\ Alive
    /\ server' = setConfig(Call("setConfig", port, server), port)
    /\ UNCHANGED << qvars, mtvars, ovvars, prvars, memvars, batvars,
                    httpvars, cmdvars, lockvars >>

Start(port, outcome) ==
    /\ Alive
    /\ StartBound(server)
    /\ server' = start(Call("start", port, server), port, outcome)
    /\ UNCHANGED << qvars, mtvars, ovvars, prvars, memvars, batvars,
                    httpvars, cmdvars, lockvars >>

Stop ==
    /\ Alive
    /\ server' = stop(Call("stop", 0, server))
    /\ UNCHANGED << qvars, mtvars, ovvars, prvars, memvars, batvars,
                    httpvars, cmdvars, lockvars >>

\* serverThreadFunc after listen_after_bind returned without a stop():
\* m_running = false; the thread function returns.
ListenerEnds ==
    /\ Alive
    /\ server.thread = "listening"
    /\ server' = [server EXCEPT !.op = "serverThreadFunc",
                                !.running = FALSE, !.thread = "finished"]
    /\ UNCHANGED << qvars, mtvars, ovvars, prvars, memvars, batvars,
                    httpvars, cmdvars, lockvars >>

\* consoleWin_t::toggleRestApiServer
ToggleRestApiServer(checked, port, outcome) ==
    /\ Alive
    /\ checked => StartBound(server)
    /\ server' =
         IF checked
         THEN LET s == start(setConfig(Call("toggleOn", port, server), port),
                             DefaultPort, outcome)
              IN [s EXCEPT !.checked = s.ret]
         ELSE [stop(Call("toggleOff", 0, server)) EXCEPT !.checked = FALSE]
    /\ UNCHANGED << qvars, mtvars, ovvars, prvars, memvars, batvars,
                    httpvars, cmdvars, lockvars >>

\* RestApiServer::~RestApiServer: stop(), then the members are destroyed;
\* the destructor of a joinable std::thread calls std::terminate.
DestroyServer ==
    /\ Alive
    /\ server' = LET s == stop(Call("destroy", 0, server))
                 IN [s EXCEPT !.life = IF Joinable(s) THEN "terminated"
                                       ELSE "destroyed"]
    /\ UNCHANGED << qvars, mtvars, ovvars, prvars, memvars, batvars,
                    httpvars, cmdvars, lockvars >>

NextServer ==
    \/ \E port \in ServerPorts : SetConfig(port)
    \/ \E port \in ServerPorts, outcome \in StartOutcomes :
         Start(port, outcome)
    \/ Stop
    \/ ListenerEnds
    \/ \E checked \in BOOLEAN, port \in ServerPorts,
          outcome \in StartOutcomes :
         ToggleRestApiServer(checked, port, outcome)
    \/ DestroyServer

SpecServer == Init /\ [][NextServer]_vars

\* C39: whenever the server is not running between two calls, its thread
\* has been joined, and no call ever assigns to or destroys a joinable
\* thread.
C39_ThreadJoined ==
    /\ ~server.running => ~Joinable(server)
    /\ server.life # "terminated"

\* What start() on a running server and stop() on a stopped one must leave
\* alone: the running flag, the thread, the server and its routes, the
\* configuration.
ServerCore(s) == << s.running, s.thread, s.hasServer, s.instance, s.port >>

\* C40: start() on a running server returns false with AlreadyRunning and
\* leaves the server, its thread, its configuration and its routes as they
\* were; stop() on a server that is not running changes nothing and emits no
\* serverStopped; setConfig() on a running server leaves the configuration.
C40_LifecycleGuards ==
    [][ /\ (server'.op \in {"start", "toggleOn"} /\ server.running) =>
             /\ server'.ret = FALSE
             /\ server'.lastError = "AlreadyRunning"
             /\ ServerCore(server') = ServerCore(server)
        /\ (server'.op \in {"stop", "toggleOff"} /\ ~server.running) =>
             /\ ServerCore(server') = ServerCore(server)
             /\ server'.lastError = server.lastError
             /\ server'.emitted = {}
        /\ (server'.op = "setConfig" /\ server.running) =>
             server'.port = server.port
      ]_vars

\* start(8081) was called on a server listening on port 8080.
C40_Witness ==
    /\ server.op = "start"
    /\ server.arg = 8081
    /\ server.lastError = "AlreadyRunning"
    /\ server.running
    /\ server.thread = "listening"
    /\ ~server.ret
    /\ server.port = DefaultPort
    /\ server.instance = 1

====
